---- MODULE Spec2Model ----
(***************************************************************************)
(* Multi-agent orchestration backend (Backend/python): the Session Store   *)
(* (SessionManager), the sequential group chat (GroupChatService), the     *)
(* manager-routed workflow (WorkflowOrchestrationService), the single      *)
(* agent chat endpoint (routers/chat.py) and the Safety Gate               *)
(* (ContentSafetyService).                                                 *)
(*                                                                         *)
(* One request is processed at a time; a request is a sequence of steps    *)
(* (pc).  Agents, the workflow stream and the classifier are external:     *)
(* their outcomes are inputs chosen by \E.  File writes of the session     *)
(* store are taken to succeed, so `sessions' is the in-process view.       *)
(***************************************************************************)
EXTENDS Integers, Sequences, FiniteSets, TLC

(***************************************************************************)
(* Bounds of the model                                                     *)
(***************************************************************************)
MaxRuns == 1          \* requests processed in one behaviour
MaxTicks == 2         \* clock advances in one behaviour
MaxSessions == 1      \* sessions created through create_session
MaxMessages == 2      \* messages appended directly to one session
MaxEvents == 2        \* output events collected from one workflow stream
MaxResponses == 3     \* agent responses handed to one synthesis
MaxCalls == 2         \* get_agent_async calls made in one behaviour

(***************************************************************************)
(* Program constants                                                       *)
(***************************************************************************)
max_retries == 3              \* execute_workflow: attempts of the stream
SESSION_MAX_AGE_DAYS == 7     \* core/config.py
DefaultThreshold == 4         \* core/config.py CONTENT_SAFETY_THRESHOLD_*
\* days the clock advances in one Tick: one Tick reaches the expiry cutoff,
\* a second one passes it
TickDays == SESSION_MAX_AGE_DAYS

None == 0                     \* Python None for an optional session id
CallerSessionId == 1          \* an id supplied by a caller, never created
FirstUuid == 2                \* uuid4() values are FirstUuid, FirstUuid+1, ...

\* names whose agent get_agent_async can construct, the names it maps to the
\* Foundry type, and a name it maps to no type
KnownAgents == {"generic_agent", "gemini_agent"}
FoundryAgents == {"people_lookup"}
UnknownAgent == "nobody"
AgentLists == { <<"generic_agent", "gemini_agent">>,
                <<"gemini_agent", "nobody">> }
MaxTurnsChoices == {2}        \* GroupChatRequest.max_turns

UserText == "Q"
\* texts an agent's run() returns; a provider failure inside run() comes back
\* as an apology text, which the callers cannot tell from "X"
AgentTexts == {"X", "Terminate"}

VARIABLES
    sessions,           \* SessionManager._sessions: id -> list of messages
    session_metadata,   \* SessionManager._session_metadata
    next_uuid,          \* next value uuid4() yields for a session id
    now,                \* datetime.utcnow(), in days
    ticks,              \* clock advances so far
    runs,               \* requests started so far
    pc,                 \* position of the request being processed
    request,            \* the request being processed
    session_id,         \* local session_id of the handler
    messages,           \* local messages of the handler
    terminated_agents,  \* start_group_chat: terminated_agents
    turn,               \* start_group_chat: loop variable turn
    current_turn,       \* start_group_chat: current_turn; execute_workflow: turn
    agent_idx,          \* position in request.agents / agent_responses
    response,           \* what the handler returned or raised
    invoked,            \* history: agents whose run() was called in this request
    failed,             \* history: [agent, cause] of the agents that failed
    stream_errors,      \* history: the errors the workflow stream raised
    sessions0,          \* history: sessions when the request started
    cs,                 \* ContentSafetyService: the fields set by __init__
    attempt,            \* execute_workflow: loop variable attempt
    agent_responses,    \* execute_workflow: agent_responses
    selected_agents,    \* execute_workflow: selected_agents
    workflow,           \* execute_workflow: names registered in the workflow
    responded,          \* history: agents that answered inside the workflow stream
    delivered,          \* output events the stream has yielded in this attempt
    resolved,           \* history: get_agent calls made for this request
    gate_log,           \* history: the safety analyses made for this request
    last_read,          \* the list the last get_session_history returned
    last_analysis,      \* the last direct analyze_text_async / analyze_image_async call
    synthesis,          \* the last answer composed from agent responses
    inflight,           \* history: agents whose run() has been called and not returned
    appended,           \* history: id -> messages passed to add_message_to_session
                        \* through the store's API since the session last came to exist
    last_cleanup,       \* what cleanup_expired_sessions returned, when it was the last
                        \* operation on the store
    last_filtered,      \* the last direct filter_output call
    agents,             \* AgentService._agents: cache key -> agent instance
    foundry_agent_cache,      \* AgentService._foundry_agent_cache
    foundry_agent_cache_lock, \* the call holding _foundry_agent_cache_lock
    new_foundry_agent_cache,  \* _foundry_agent_cache of agent_service_new.py
    new_foundry_agent_cache_lock, \* and the call holding its lock
    constructed,        \* history: the agent objects create_agent has returned;
                        \* an instance is named by its position
    calls,              \* the get_agent_async calls in progress, by caller
    finished            \* history: the get_agent_async calls that have ended

smvars  == <<sessions, session_metadata, next_uuid>>
gcvars == <<terminated_agents, turn>>
wfvars == <<attempt, agent_responses, selected_agents, workflow, responded,
            delivered>>
histvars == <<invoked, failed, sessions0, resolved, gate_log, stream_errors>>
runvars == <<pc, request, session_id, messages, current_turn, agent_idx,
             response, gcvars, wfvars, histvars>>
clockvars == <<now, ticks>>
storehist == <<appended, last_cleanup>>
gatevars == <<cs, last_filtered>>
dirvars == <<agents, foundry_agent_cache, foundry_agent_cache_lock,
             new_foundry_agent_cache, new_foundry_agent_cache_lock, constructed,
             calls, finished>>
svcvars == <<gatevars, inflight, storehist, dirvars>>
vars == <<sessions, session_metadata, next_uuid, now, ticks, runs, pc, request,
          session_id, messages, terminated_agents, turn, current_turn,
          agent_idx, response, invoked, failed, sessions0, cs, attempt,
          agent_responses, selected_agents, workflow, responded, delivered,
          resolved, gate_log, stream_errors, last_read, last_analysis, synthesis,
          inflight, appended, last_cleanup, last_filtered, agents,
          foundry_agent_cache, foundry_agent_cache_lock,
          new_foundry_agent_cache, new_foundry_agent_cache_lock, constructed, calls,
          finished>>

(***************************************************************************)
(* models/chat_models.py                                                   *)
(***************************************************************************)
\* GroupChatMessage: timestamp is declared str; pydantic rejects a datetime.
GroupChatMessageValid(timestamp_type) == timestamp_type = "str"

GroupChatMessage(agent, content, t, kind, filtered) ==
    [agent |-> agent, content |-> content, turn |-> t, kind |-> kind,
     filtered |-> filtered]

NoRequest == [message |-> "", agents |-> <<>>, session_id |-> None, max_turns |-> 0]
\* what a handler hands to its caller: a GroupChatResponse (status "returned")
\* or an exception (status "raised", error names it)
Response(status, service, msgs, sid, total_turns, participating, terminated, blocked, error) ==
    [status |-> status, service |-> service, messages |-> msgs,
     session_id |-> sid, total_turns |-> total_turns,
     participating_agents |-> participating, terminated_agents |-> terminated,
     blocked |-> blocked, error |-> error]
NoResponse == Response("none", "", <<>>, None, 0, <<>>, {}, FALSE, "")
Raised(service, error) ==
    Response("raised", service, <<>>, None, 0, <<>>, {}, FALSE, error)

(***************************************************************************)
(* src/services/session_manager.py                                         *)
(***************************************************************************)
NewMetadata(t) == [last_accessed |-> t, message_count |-> 0]

Put(f, k, v) == [x \in DOMAIN f \cup {k} |-> IF x = k THEN v ELSE f[x]]
Remove(f, k) == [x \in DOMAIN f \ {k} |-> f[x]]

\* create_session: the store after creating session id sid at time t
SmCreate(S, M, sid, t) ==
    [sessions |-> Put(S, sid, <<>>), metadata |-> Put(M, sid, NewMetadata(t))]

\* _update_session_access
SmTouch(M, sid, t) ==
    IF sid \in DOMAIN M THEN Put(M, sid, [M[sid] EXCEPT !.last_accessed = t]) ELSE M

\* add_message_to_session inserting at the head of the list
SmAdd_Prepend(S, M, sid, m, t) ==
    LET S1 == IF sid \notin DOMAIN S THEN Put(S, sid, <<>>) ELSE S
        M1 == IF sid \notin DOMAIN S THEN Put(M, sid, NewMetadata(t)) ELSE M
        S2 == Put(S1, sid, <<m>> \o S1[sid])
        M2 == SmTouch(M1, sid, t)
        M3 == IF sid \in DOMAIN M2
                THEN Put(M2, sid, [M2[sid] EXCEPT !.message_count = Len(S2[sid])])
                ELSE M2
    IN [sessions |-> S2, metadata |-> M3]

\* add_message_to_session initialising the list without the membership test
SmAdd_Reset(S, M, sid, m, t) ==
    LET S2 == Put(S, sid, <<m>>)
        M1 == Put(M, sid, NewMetadata(t))
        M3 == Put(M1, sid, [M1[sid] EXCEPT !.message_count = Len(S2[sid])])
    IN [sessions |-> S2, metadata |-> M3]

\* add_message_to_session leaving out a message equal to the last one stored
SmAdd_SkipsRepeat(S, M, sid, m, t) ==
    LET S1 == IF sid \notin DOMAIN S THEN Put(S, sid, <<>>) ELSE S
        M1 == IF sid \notin DOMAIN S THEN Put(M, sid, NewMetadata(t)) ELSE M
        old == S1[sid]
        S2 == IF old # <<>> /\ old[Len(old)] = m THEN S1
              ELSE Put(S1, sid, Append(old, m))
        M2 == SmTouch(M1, sid, t)
        M3 == IF sid \in DOMAIN M2
                THEN Put(M2, sid, [M2[sid] EXCEPT !.message_count = Len(S2[sid])])
                ELSE M2
    IN [sessions |-> S2, metadata |-> M3]

\* add_message_to_session
SmAdd(S, M, sid, m, t) ==
    LET S1 == IF sid \notin DOMAIN S THEN Put(S, sid, <<>>) ELSE S
        M1 == IF sid \notin DOMAIN S THEN Put(M, sid, NewMetadata(t)) ELSE M
        S2 == Put(S1, sid, Append(S1[sid], m))
        M2 == SmTouch(M1, sid, t)
        M3 == IF sid \in DOMAIN M2
                THEN Put(M2, sid, [M2[sid] EXCEPT !.message_count = Len(S2[sid])])
                ELSE M2
    IN [sessions |-> S2, metadata |-> M3]

\* delete_session
SmDelete(S, M, sid) == [sessions |-> Remove(S, sid), metadata |-> Remove(M, sid)]

\* get_session_history: the list returned
SmHistory(S, sid) == IF sid \in DOMAIN S THEN S[sid] ELSE <<>>

\* cleanup_expired_sessions selecting also the sessions exactly at the cutoff
ExpiredSessions_AtCutoff(M, t) ==
    {sid \in DOMAIN M : M[sid].last_accessed <= t - SESSION_MAX_AGE_DAYS}

\* cleanup_expired_sessions: the ids selected for deletion
ExpiredSessions(M, t) ==
    {sid \in DOMAIN M : M[sid].last_accessed < t - SESSION_MAX_AGE_DAYS}

(***************************************************************************)
(* services/content_safety_service.py                                      *)
(***************************************************************************)
Categories == {"Hate", "SelfHarm", "Sexual", "Violence"}
PlaceholderText == "[Content removed due to safety policy]"

\* the fields __init__ sets from the settings; enabled is the value after the
\* credentials check, so the client exists exactly when enabled
ServiceConfigT(enabled, block_unsafe_input, filter_unsafe_output, output_action, thresholds) ==
    [enabled |-> enabled,
     block_unsafe_input |-> block_unsafe_input,
     filter_unsafe_output |-> filter_unsafe_output,
     output_action |-> output_action,
     category_thresholds |-> thresholds,
     placeholder_text |-> PlaceholderText]

\* the service built from the default CONTENT_SAFETY_THRESHOLD_* settings
ServiceConfig(enabled, block_unsafe_input, filter_unsafe_output, output_action) ==
    ServiceConfigT(enabled, block_unsafe_input, filter_unsafe_output, output_action,
                   [c \in Categories |-> DefaultThreshold])

ServiceConfigs ==
    { ServiceConfig(TRUE, TRUE, TRUE, "redact"),
      ServiceConfig(TRUE, FALSE, TRUE, "redact"),
      ServiceConfig(FALSE, TRUE, TRUE, "redact") }

\* class OutputAction
OutputActions == {"redact", "placeholder", "empty"}

\* values the CONTENT_SAFETY_THRESHOLD_* settings are given; -1 is the value
\* _build_result_from_text and _build_result_from_image test for
ThresholdChoices == {-1, 2, DefaultThreshold}

\* the services analysed directly: every combination of the four thresholds,
\* one service that is not enabled, and every output action with the output
\* filter on and off
GateConfigs ==
    { ServiceConfigT(TRUE, TRUE, TRUE, "redact", th) :
          th \in [Categories -> ThresholdChoices] }
    \cup {ServiceConfig(FALSE, TRUE, TRUE, "redact")}
    \cup { ServiceConfig(TRUE, TRUE, f, a) : f \in BOOLEAN, a \in OutputActions }

\* the severity levels the classifier reports by default
SeverityLevels == {0, 2, 4, 6}

\* blocklist_item_text of the matches a response carries
BlocklistItemTexts == {"", "badword"}

\* what client.analyze_text / analyze_image does: it answers or it raises;
\* blocklist is the set of blocklist_item_text values of blocklists_match
ClassifierResponse(severities, blocklist) ==
    [kind |-> "response", severities |-> severities, blocklist |-> blocklist]
ClassifierRaises(kind) ==
    [kind |-> kind, severities |-> [c \in Categories |-> 0], blocklist |-> {}]

CleanResponse == ClassifierResponse([c \in Categories |-> 0], {})
ViolentResponse ==
    ClassifierResponse([c \in Categories |-> IF c = "Violence" THEN 6 ELSE 0], {})
BlocklistResponse == ClassifierResponse([c \in Categories |-> 0], {"badword"})
RaisingOutcomes == {ClassifierRaises("HttpResponseError"), ClassifierRaises("Exception")}
ClassifierOutcomes ==
    {CleanResponse, ViolentResponse, BlocklistResponse} \cup RaisingOutcomes

\* every answer of analyze_text, and the exceptions
TextOutcomes ==
    { ClassifierResponse(sev, bl) :
          sev \in [Categories -> SeverityLevels], bl \in SUBSET BlocklistItemTexts }
    \cup RaisingOutcomes

\* every answer of analyze_image (no blocklists), and the exceptions
ImageOutcomes ==
    { ClassifierResponse(sev, {}) : sev \in [Categories -> SeverityLevels] }
    \cup RaisingOutcomes

ContentSafetyResult(enabled, flagged_categories, blocklist_matches, is_safe, error) ==
    [type |-> "ContentSafetyResult",
     enabled |-> enabled,
     flagged_categories |-> flagged_categories,
     blocklist_matches |-> blocklist_matches,
     is_safe |-> is_safe,
     error |-> error]

\* ContentSafetyResult.not_configured
not_configured == ContentSafetyResult(FALSE, {}, {}, TRUE, "")

\* ContentSafetyResult.failure reporting an enabled, unsafe result
failure_Unsafe(error_message) ==
    ContentSafetyResult(TRUE, {}, {}, FALSE, error_message)

\* ContentSafetyResult.failure
failure(error_message) == ContentSafetyResult(FALSE, {}, {}, TRUE, error_message)

\* _build_result_from_text flagging a category whatever its threshold is
BuildResultFromText_NoSentinel(config, resp) ==
    LET flagged == {c \in Categories :
                       resp.severities[c] >= config.category_thresholds[c]}
        blocklist_matches == {t \in resp.blocklist : t # ""}
        is_safe == flagged = {} /\ blocklist_matches = {}
    IN ContentSafetyResult(TRUE, flagged, blocklist_matches, is_safe, "")

\* _build_result_from_text computing is_safe from the categories alone
BuildResultFromText_IgnoresBlocklist(config, resp) ==
    LET flagged == {c \in Categories :
                       /\ config.category_thresholds[c] # -1
                       /\ resp.severities[c] >= config.category_thresholds[c]}
        blocklist_matches == {t \in resp.blocklist : t # ""}
        is_safe == flagged = {}
    IN ContentSafetyResult(TRUE, flagged, blocklist_matches, is_safe, "")

\* _build_result_from_text
BuildResultFromText(config, resp) ==
    LET flagged == {c \in Categories :
                       /\ config.category_thresholds[c] # -1
                       /\ resp.severities[c] >= config.category_thresholds[c]}
        blocklist_matches == {t \in resp.blocklist : t # ""}
        is_safe == flagged = {} /\ blocklist_matches = {}
    IN ContentSafetyResult(TRUE, flagged, blocklist_matches, is_safe, "")

\* _build_result_from_image
BuildResultFromImage(config, resp) ==
    LET flagged == {c \in Categories :
                       /\ config.category_thresholds[c] # -1
                       /\ resp.severities[c] >= config.category_thresholds[c]}
        is_safe == flagged = {}
    IN ContentSafetyResult(TRUE, flagged, {}, is_safe, "")

\* analyze_text_async: outcome is what the classifier does when it is called
AnalyzeTextAsync(config, text, outcome) ==
    IF ~config.enabled THEN not_configured
    ELSE IF text = "" THEN not_configured
    ELSE IF outcome.kind = "response" THEN BuildResultFromText(config, outcome)
    ELSE failure(outcome.kind)

\* analyze_image_async: image_bytes is "" for no bytes
AnalyzeImageAsync(config, image_bytes, outcome) ==
    IF ~config.enabled THEN not_configured
    ELSE IF image_bytes = "" THEN not_configured
    ELSE IF outcome.kind = "response" THEN BuildResultFromImage(config, outcome)
    ELSE failure(outcome.kind)

\* is_safe
IsSafe(result) == IF ~result.enabled THEN TRUE ELSE result.is_safe

\* check_user_input_async returning (True, None) whatever the analysis says
CheckUserInputAsync_Allows(config, text, outcome) ==
    [allowed |-> TRUE,
     analysed |-> config.enabled /\ config.block_unsafe_input]

\* check_user_input_async (check_input_safety delegates to it)
CheckUserInputAsync(config, text, outcome) ==
    IF ~config.enabled \/ ~config.block_unsafe_input
    THEN [allowed |-> TRUE, analysed |-> FALSE]
    ELSE [allowed |-> IsSafe(AnalyzeTextAsync(config, text, outcome)),
          analysed |-> TRUE]

\* a Python str passed where a ContentSafetyResult is expected
PyStr(value) == [type |-> "str", value |-> value]

\* filter_output with _redact_unsafe returning the empty string
FilterOutput_RedactsToEmpty(config, original, analysis) ==
    IF ~config.enabled \/ ~config.filter_unsafe_output
    THEN [raises |-> "none", value |-> original]
    ELSE IF analysis.type # "ContentSafetyResult"
    THEN [raises |-> "AttributeError", value |-> ""]
    ELSE IF IsSafe(analysis) THEN [raises |-> "none", value |-> original]
    ELSE IF config.output_action = "placeholder"
    THEN [raises |-> "none", value |-> config.placeholder_text]
    ELSE [raises |-> "none", value |-> ""]

\* filter_output(original, analysis): the value returned, or the exception
\* raised when analysis has no attribute enabled
FilterOutput(config, original, analysis) ==
    IF ~config.enabled \/ ~config.filter_unsafe_output
    THEN [raises |-> "none", value |-> original]
    ELSE IF analysis.type # "ContentSafetyResult"
    THEN [raises |-> "AttributeError", value |-> ""]
    ELSE IF IsSafe(analysis) THEN [raises |-> "none", value |-> original]
    ELSE IF config.output_action = "placeholder"
    THEN [raises |-> "none", value |-> config.placeholder_text]
    ELSE IF config.output_action = "empty" THEN [raises |-> "none", value |-> ""]
    ELSE [raises |-> "none", value |-> config.placeholder_text]

\* filter_output is a plain def: its result is a str, which cannot be awaited
FilterOutputIsCoroutine_Awaitable == TRUE
FilterOutputIsCoroutine == FALSE

\* await self.content_safety.filter_output(response_text, agent_name)
AwaitFilterOutput(config, response_text, agent_name) ==
    LET r == FilterOutput(config, response_text, PyStr(agent_name))
    IN IF r.raises # "none" THEN r
       ELSE IF ~FilterOutputIsCoroutine THEN [raises |-> "TypeError", value |-> ""]
       ELSE r

\* one entry of the history of safety analyses: the stage, what the
\* classifier did ("not_called" when analyze_text_async returned before the
\* call) and whether the gate took the verdict as safe
GateEntry(config, stage, text, outcome) ==
    [stage |-> stage,
     outcome |-> IF config.enabled /\ text # "" THEN outcome.kind ELSE "not_called",
     safe |-> IsSafe(AnalyzeTextAsync(config, text, outcome))]

\* nothing composed yet
NoSynthesis == [source |-> "none", input |-> <<>>, outcome |-> "", text |-> <<>>,
                called |-> FALSE]

\* the concurrent callers of get_agent_async, and no caller
Callers == {1, 2}
NoCaller == 0

\* a caller that is not inside get_agent_async
IdleCall == [pc |-> "idle", agent_name |-> "", enable_memory |-> FALSE,
             agent |-> None, foundry_ok |-> FALSE, waited |-> FALSE]

\* no filter_output call made yet
NoFilter == [called |-> FALSE, original |-> "", analysis |-> not_configured,
             raises |-> "none", value |-> ""]

\* no analyze_text_async / analyze_image_async call made yet
NoAnalysis == [media |-> "none", content |-> "", outcome |-> CleanResponse,
               result |-> not_configured]

\* the state after construction, the safety service built from one of configs
InitWith(configs) ==
    /\ sessions = <<>>
    /\ session_metadata = <<>>
    /\ next_uuid = FirstUuid
    /\ now = 0
    /\ ticks = 0
    /\ runs = 0
    /\ pc = "idle"
    /\ request = NoRequest
    /\ session_id = None
    /\ messages = <<>>
    /\ terminated_agents = {}
    /\ turn = 0
    /\ current_turn = 0
    /\ agent_idx = 0
    /\ response = NoResponse
    /\ invoked = <<>>
    /\ failed = {}
    /\ sessions0 = <<>>
    /\ cs \in configs
    /\ attempt = 0
    /\ agent_responses = <<>>
    /\ selected_agents = <<>>
    /\ workflow = {}
    /\ responded = 0
    /\ delivered = 0
    /\ resolved = 0
    /\ gate_log = <<>>
    /\ stream_errors = <<>>
    /\ last_read = <<>>
    /\ last_analysis = NoAnalysis
    /\ synthesis = NoSynthesis
    /\ inflight = {}
    /\ appended = <<>>
    /\ last_cleanup = <<>>
    /\ last_filtered = NoFilter
    /\ agents = <<>>
    /\ foundry_agent_cache = <<>>
    /\ foundry_agent_cache_lock = NoCaller
    /\ new_foundry_agent_cache = <<>>
    /\ new_foundry_agent_cache_lock = NoCaller
    /\ constructed = <<>>
    /\ calls = [c \in Callers |-> IdleCall]
    /\ finished = <<>>

Init == InitWith(ServiceConfigs)

Tick ==
    /\ ticks < MaxTicks
    /\ ticks' = ticks + 1
    /\ now' = now + TickDays
    /\ last_cleanup' = <<>>
    /\ UNCHANGED <<smvars, runs, runvars, gatevars, inflight, dirvars, appended, last_read,
                   last_analysis, synthesis>>

\* SessionManager.create_session
CreateSession ==
    /\ next_uuid < FirstUuid + MaxSessions
    /\ LET r == SmCreate(sessions, session_metadata, next_uuid, now)
       IN /\ sessions' = r.sessions
          /\ session_metadata' = r.metadata
    /\ appended' = Put(appended, next_uuid, <<>>)
    /\ next_uuid' = next_uuid + 1
    /\ last_cleanup' = <<>>
    /\ UNCHANGED <<clockvars, runs, runvars, gatevars, inflight, dirvars, last_read,
                   last_analysis, synthesis>>

\* the ids a caller of the store names: those create_session has returned,
\* whether the session still exists or not
NameableSessions == FirstUuid .. (next_uuid - 1)

\* SessionManager.add_message_to_session with a message built by the caller
AddMessageToSession ==
    /\ \E sid \in NameableSessions, t \in {0, 1} :
         LET m == GroupChatMessage(IF t = 0 THEN "user" ELSE "generic_agent",
                      IF t = 0 THEN UserText ELSE "X", t,
                      IF t = 0 THEN "user" ELSE "response", 0)
             r == SmAdd(sessions, session_metadata, sid, m, now)
         IN /\ Len(SmHistory(sessions, sid)) < MaxMessages
            /\ sessions' = r.sessions
            /\ session_metadata' = r.metadata
            /\ appended' = Put(appended, sid, Append(SmHistory(appended, sid), m))
    /\ last_cleanup' = <<>>
    /\ UNCHANGED <<next_uuid, clockvars, runs, runvars, gatevars, inflight, dirvars, last_read,
                   last_analysis, synthesis>>

\* SessionManager.get_session_history
GetSessionHistory ==
    /\ \E sid \in NameableSessions :
         /\ session_metadata' = SmTouch(session_metadata, sid, now)
         /\ last_read' = [sid |-> sid, history |-> SmHistory(sessions, sid)]
    /\ last_cleanup' = <<>>
    /\ UNCHANGED <<sessions, next_uuid, clockvars, runs, runvars, gatevars, inflight, dirvars,
                   appended, last_analysis, synthesis>>

\* SessionManager.delete_session
DeleteSession ==
    /\ \E sid \in NameableSessions :
         LET r == SmDelete(sessions, session_metadata, sid)
         IN /\ sessions' = r.sessions
            /\ session_metadata' = r.metadata
            /\ appended' = Remove(appended, sid)
    /\ last_cleanup' = <<>>
    /\ UNCHANGED <<next_uuid, clockvars, runs, runvars, gatevars, inflight, dirvars, last_read,
                   last_analysis, synthesis>>

\* SessionManager.cleanup_expired_sessions
CleanupExpiredSessions ==
    /\ LET dead == ExpiredSessions(session_metadata, now)
           r == [sid \in DOMAIN sessions \ dead |-> sessions[sid]]
       IN /\ sessions' = r
          /\ session_metadata' =
                 [sid \in DOMAIN session_metadata \ dead |-> session_metadata[sid]]
          /\ appended' = [sid \in DOMAIN appended \ dead |-> appended[sid]]
          /\ last_cleanup' = [cleanup_count |-> Cardinality(dead)]
    /\ UNCHANGED <<next_uuid, clockvars, runs, runvars, gatevars, inflight, dirvars, last_read, last_analysis, synthesis>>

NextStore ==
    \/ Tick
    \/ CreateSession
    \/ AddMessageToSession
    \/ GetSessionHistory
    \/ DeleteSession
    \/ CleanupExpiredSessions

\* the Session Store driven through its own operations
SpecStore == Init /\ [][NextStore]_vars

(***************************************************************************)
(* The safety service called directly, as routers/safety.py does           *)
(***************************************************************************)
ImageBytes == "bytes"

\* the service built from any combination of thresholds
InitGate == InitWith(GateConfigs)

\* ContentSafetyService.analyze_text_async; the methods keep nothing between
\* calls, so a behaviour analyses one content
AnalyzeText ==
    /\ last_analysis = NoAnalysis
    /\ \E text \in {"", UserText}, outcome \in TextOutcomes :
         last_analysis' = [media |-> "text", content |-> text, outcome |-> outcome,
                           result |-> AnalyzeTextAsync(cs, text, outcome)]
    /\ UNCHANGED <<smvars, clockvars, runs, runvars, svcvars, last_read, synthesis>>

\* ContentSafetyService.analyze_image_async
AnalyzeImage ==
    /\ last_analysis = NoAnalysis
    /\ \E image_bytes \in {"", ImageBytes}, outcome \in ImageOutcomes :
         last_analysis' = [media |-> "image", content |-> image_bytes,
                           outcome |-> outcome,
                           result |-> AnalyzeImageAsync(cs, image_bytes, outcome)]
    /\ UNCHANGED <<smvars, clockvars, runs, runvars, svcvars, last_read, synthesis>>

\* ContentSafetyService.filter_output applied to the text just analysed and
\* its analysis, as routers/chat.py does
FilterOutputCall ==
    /\ last_analysis.media = "text"
    /\ ~last_filtered.called
    /\ LET r == FilterOutput(cs, last_analysis.content, last_analysis.result)
       IN last_filtered' = [called |-> TRUE,
                            original |-> last_analysis.content,
                            analysis |-> last_analysis.result,
                            raises |-> r.raises, value |-> r.value]
    /\ UNCHANGED <<smvars, clockvars, runs, runvars, cs, inflight, storehist,
                   dirvars, last_read, last_analysis, synthesis>>

NextGate ==
    \/ AnalyzeText
    \/ AnalyzeImage
    \/ FilterOutputCall

\* the Safety Gate driven through its analysis methods and its output filter
SpecGate == InitGate /\ [][NextGate]_vars

(***************************************************************************)
(* services/agent_service.py                                               *)
(***************************************************************************)
\* _determine_agent_type
DetermineAgentType(normalized_agent_name) ==
    IF normalized_agent_name \in FoundryAgents THEN "ms_foundry_agent"
    ELSE IF normalized_agent_name = "generic_agent" THEN "azure_openai_agent"
    ELSE normalized_agent_name

\* get_agent_async: the types it constructs a standard agent for
StandardAgentTypes ==
    {"azure_openai_agent", "bedrock_agent", "gemini_agent", "openai_agent"}

\* _determine_agent_type / get_agent_async: does the name map to an agent type
AgentTypeKnown(agent_name) ==
    DetermineAgentType(agent_name) \in StandardAgentTypes \cup {"ms_foundry_agent"}

\* agents/specific_agents.py: the classes whose initialize() assigns self.agent;
\* PeopleLookupAgent and KnowledgeFinderAgent leave it None
InitializeSetsAgent(agent_name) == agent_name \in KnownAgents

\* get_agent: "agent" when constructed, "none" for an unknown type, and for a
\* known type construction may raise (missing credentials); an agent whose
\* attribute agent is None after initialize() is rejected with ValueError on
\* the Foundry path and on the standard path
GetAgentOutcomes(agent_name) ==
    IF ~AgentTypeKnown(agent_name) THEN {"none"}
    ELSE IF InitializeSetsAgent(agent_name) THEN {"agent", "raises"}
    ELSE {"raises"}

(***************************************************************************)
(* services/group_chat_service.py                                          *)
(***************************************************************************)
\* request.session_id or await create_session(), then the user message is added
OpenSession(req) ==
    LET created == req.session_id = None
        sid == IF created THEN next_uuid ELSE req.session_id
        r0 == IF created THEN SmCreate(sessions, session_metadata, sid, now)
              ELSE [sessions |-> sessions, metadata |-> session_metadata]
        user_message == GroupChatMessage("user", req.message, 0, "user", 0)
        r1 == SmAdd(r0.sessions, r0.metadata, sid, user_message, now)
    IN [sid |-> sid, created |-> created, user_message |-> user_message,
        sessions |-> r1.sessions, metadata |-> r1.metadata]

Requests ==
    [message : {UserText}, agents : AgentLists,
     session_id : {None, CallerSessionId},
     max_turns : MaxTurnsChoices]

\* _is_agent_terminated: a termination indicator occurs in the lowered text
Lower(text) == IF text = "Terminate" THEN "terminate" ELSE text
IsAgentTerminated(response_content) == Lower(response_content) \in {"terminate"}

\* the timestamp the timeout handler passes to GroupChatMessage
TimeoutMessageTimestamp == "datetime"

\* start_group_chat up to the loop
GcStart ==
    /\ pc = "idle"
    /\ runs < MaxRuns
    /\ \E req \in Requests :
         LET o == OpenSession(req)
         IN /\ request' = req
            /\ session_id' = o.sid
            /\ sessions' = o.sessions
            /\ session_metadata' = o.metadata
            /\ next_uuid' = IF o.created THEN next_uuid + 1 ELSE next_uuid
            /\ messages' = <<o.user_message>>
            /\ pc' = IF req.max_turns >= 1 THEN "gc_loop" ELSE "gc_respond"
    /\ runs' = runs + 1
    /\ sessions0' = sessions
    /\ terminated_agents' = {}
    /\ current_turn' = 1
    /\ turn' = 1
    /\ agent_idx' = 1
    /\ response' = NoResponse
    /\ invoked' = <<>>
    /\ failed' = {}
    /\ resolved' = 0
    /\ gate_log' = <<>>
    /\ stream_errors' = <<>>
    /\ UNCHANGED <<clockvars, svcvars, wfvars, last_read, last_analysis, synthesis>>

GcAtAgent ==
    /\ pc = "gc_loop"
    /\ agent_idx <= Len(request.agents)

\* the except Exception handler of one iteration
GcErrorMessage(agent_name) ==
    GroupChatMessage(agent_name, "Error occurred", current_turn, "error", 0)

\* if agent_name in terminated_agents: continue
GcSkipTerminated ==
    /\ GcAtAgent
    /\ request.agents[agent_idx] \in terminated_agents
    /\ agent_idx' = agent_idx + 1
    /\ UNCHANGED <<smvars, clockvars, runs, pc, request, session_id, messages,
                   gcvars, current_turn, response, histvars, svcvars, wfvars,
                   last_read, last_analysis, synthesis>>

\* if not agent: the request is failed instead of the name being skipped
GcAgentNotFound_Fails ==
    /\ GcAtAgent
    /\ request.agents[agent_idx] \notin terminated_agents
    /\ "none" \in GetAgentOutcomes(request.agents[agent_idx])
    /\ response' = Raised("group_chat", "ValueError")
    /\ pc' = "done"
    /\ resolved' = resolved + 1
    /\ UNCHANGED <<smvars, clockvars, runs, request, session_id, messages,
                   gcvars, current_turn, agent_idx, invoked, failed, sessions0,
                   gate_log, stream_errors, svcvars, wfvars, last_read, last_analysis, synthesis>>

\* agent = await get_agent(agent_name); if not agent: continue
GcAgentNotFound ==
    /\ GcAtAgent
    /\ request.agents[agent_idx] \notin terminated_agents
    /\ "none" \in GetAgentOutcomes(request.agents[agent_idx])
    /\ agent_idx' = agent_idx + 1
    /\ resolved' = resolved + 1
    /\ UNCHANGED <<smvars, clockvars, runs, pc, request, session_id, messages,
                   gcvars, current_turn, response, invoked, failed, sessions0,
                   gate_log, stream_errors, svcvars, wfvars, last_read, last_analysis, synthesis>>

\* get_agent raises: the outer handler records an error message
GcGetAgentRaises ==
    /\ GcAtAgent
    /\ LET agent_name == request.agents[agent_idx]
       IN /\ agent_name \notin terminated_agents
          /\ "raises" \in GetAgentOutcomes(agent_name)
          /\ messages' = Append(messages, GcErrorMessage(agent_name))
          /\ terminated_agents' = terminated_agents \cup {agent_name}
          /\ failed' = failed \cup {[agent |-> agent_name, cause |-> "unavailable"]}
    /\ agent_idx' = agent_idx + 1
    /\ resolved' = resolved + 1
    /\ UNCHANGED <<smvars, clockvars, runs, pc, request, session_id, turn,
                   current_turn, response, invoked, sessions0, gate_log, stream_errors,
                   svcvars, wfvars, last_read, last_analysis, synthesis>>

\* the invocation started as a task of its own: the loop goes on to the next
\* agent without awaiting it
GcInvoke_Concurrent ==
    /\ GcAtAgent
    /\ LET agent_name == request.agents[agent_idx]
       IN /\ agent_name \notin terminated_agents
          /\ "agent" \in GetAgentOutcomes(agent_name)
          /\ invoked' = Append(invoked, agent_name)
          /\ inflight' = inflight \cup {agent_name}
    /\ agent_idx' = agent_idx + 1
    /\ resolved' = resolved + 1
    /\ UNCHANGED <<smvars, clockvars, runs, pc, request, session_id, messages,
                   gcvars, current_turn, response, failed, sessions0,
                   gate_log, stream_errors, gatevars, storehist, dirvars, wfvars, last_read,
                   last_analysis, synthesis>>

\* agent = await get_agent(agent_name); response_task = agent.run(...);
\* await asyncio.wait_for(response_task, timeout=60.0): the loop is suspended
\* until this invocation returns or times out
GcInvoke ==
    /\ GcAtAgent
    /\ LET agent_name == request.agents[agent_idx]
       IN /\ agent_name \notin terminated_agents
          /\ "agent" \in GetAgentOutcomes(agent_name)
          /\ invoked' = Append(invoked, agent_name)
          /\ inflight' = inflight \cup {agent_name}
    /\ pc' = "gc_wait"
    /\ resolved' = resolved + 1
    /\ UNCHANGED <<smvars, clockvars, runs, request, session_id, messages,
                   gcvars, current_turn, agent_idx, response, failed, sessions0,
                   gate_log, stream_errors, gatevars, storehist, dirvars, wfvars, last_read,
                   last_analysis, synthesis>>

\* agent.run returns within the timeout: a text, or the apology text that
\* run() returns when the provider call failed
GcAgentResponds ==
    /\ pc = "gc_wait"
    /\ LET agent_name == request.agents[agent_idx]
       IN /\ \E response_content \in AgentTexts :
               LET is_terminated == IsAgentTerminated(response_content)
                   agent_message == GroupChatMessage(agent_name, response_content,
                                        current_turn, "response", 0)
                   r == SmAdd(sessions, session_metadata, session_id,
                              agent_message, now)
               IN /\ terminated_agents' =
                        IF is_terminated THEN terminated_agents \cup {agent_name}
                        ELSE terminated_agents
                  /\ messages' = Append(messages, agent_message)
                  /\ sessions' = r.sessions
                  /\ session_metadata' = r.metadata
          /\ inflight' = inflight \ {agent_name}
    /\ pc' = "gc_loop"
    /\ agent_idx' = agent_idx + 1
    /\ UNCHANGED <<next_uuid, clockvars, runs, request, session_id, turn,
                   current_turn, response, histvars, gatevars, storehist, dirvars, wfvars, last_read,
                   last_analysis, synthesis>>

\* asyncio.wait_for raises TimeoutError: the handler builds the timeout message;
\* when that message is rejected the outer handler records an error message
GcAgentTimeout ==
    /\ pc = "gc_wait"
    /\ LET agent_name == request.agents[agent_idx]
           timeout_message == GroupChatMessage(agent_name, "did not respond",
                                  current_turn, "timeout", 0)
       IN /\ messages' = IF GroupChatMessageValid(TimeoutMessageTimestamp)
                         THEN Append(messages, timeout_message)
                         ELSE Append(messages, GcErrorMessage(agent_name))
          /\ terminated_agents' = terminated_agents \cup {agent_name}
          /\ failed' = failed \cup {[agent |-> agent_name, cause |-> "timeout"]}
          /\ inflight' = inflight \ {agent_name}
    /\ pc' = "gc_loop"
    /\ agent_idx' = agent_idx + 1
    /\ UNCHANGED <<smvars, clockvars, runs, request, session_id, turn,
                   current_turn, response, invoked, sessions0, resolved,
                   gate_log, stream_errors, gatevars, storehist, dirvars, wfvars, last_read,
                   last_analysis, synthesis>>

\* the end of a round without the test of the terminated agents
GcEndRound_NoEarlyStop ==
    /\ pc = "gc_loop"
    /\ agent_idx > Len(request.agents)
    /\ current_turn' = current_turn + 1
    /\ IF turn < request.max_turns
         THEN pc' = "gc_loop" /\ turn' = turn + 1 /\ agent_idx' = 1
         ELSE pc' = "gc_respond" /\ UNCHANGED <<turn, agent_idx>>
    /\ UNCHANGED <<smvars, clockvars, runs, request, session_id, messages,
                   terminated_agents, response, histvars, svcvars, wfvars,
                   last_read, last_analysis, synthesis>>

\* end of the inner loop: current_turn += 1, the all-terminated break, next turn
GcEndRound ==
    /\ pc = "gc_loop"
    /\ agent_idx > Len(request.agents)
    /\ current_turn' = current_turn + 1
    /\ IF Cardinality(terminated_agents) >= Len(request.agents)
         THEN pc' = "gc_respond" /\ UNCHANGED <<turn, agent_idx>>
         ELSE IF turn < request.max_turns
                THEN pc' = "gc_loop" /\ turn' = turn + 1 /\ agent_idx' = 1
                ELSE pc' = "gc_respond" /\ UNCHANGED <<turn, agent_idx>>
    /\ UNCHANGED <<smvars, clockvars, runs, request, session_id, messages,
                   terminated_agents, response, histvars, svcvars, wfvars, last_read, last_analysis, synthesis>>

\* the GroupChatResponse of start_group_chat
GcRespond ==
    /\ pc = "gc_respond"
    /\ response' = Response("returned", "group_chat", messages, session_id,
                             current_turn - 1, request.agents,
                             terminated_agents, FALSE, "")
    /\ pc' = "done"
    /\ UNCHANGED <<smvars, clockvars, runs, request, session_id, messages,
                   gcvars, current_turn, agent_idx, histvars, svcvars, wfvars,
                   last_read, last_analysis, synthesis>>

(***************************************************************************)
(* services/workflow_orchestration_service.py                              *)
(***************************************************************************)
Range(seq) == {seq[i] : i \in 1..Len(seq)}

\* execute_workflow, STEP 1: the input safety check and the blocked result
WfStart ==
    /\ pc = "idle"
    /\ runs < MaxRuns
    /\ \E req \in Requests, outcome \in ClassifierOutcomes :
         LET c == CheckUserInputAsync(cs, req.message, outcome)
         IN /\ request' = req
            /\ gate_log' = IF c.analysed
                           THEN <<GateEntry(cs, "input", req.message, outcome)>>
                           ELSE <<>>
            /\ IF ~c.allowed
                 THEN /\ response' = Response("returned", "workflow", <<>>,
                              IF req.session_id # None THEN req.session_id
                              ELSE next_uuid,
                              0, <<>>, {}, TRUE, "content_safety_violation")
                      /\ next_uuid' = IF req.session_id # None THEN next_uuid
                                      ELSE next_uuid + 1
                      /\ pc' = "done"
                 ELSE /\ response' = NoResponse
                      /\ next_uuid' = next_uuid
                      /\ pc' = "wf_session"
    /\ runs' = runs + 1
    /\ sessions0' = sessions
    /\ session_id' = None
    /\ messages' = <<>>
    /\ current_turn' = 0
    /\ agent_idx' = 0
    /\ invoked' = <<>>
    /\ failed' = {}
    /\ resolved' = 0
    /\ stream_errors' = <<>>
    /\ attempt' = 0
    /\ agent_responses' = <<>>
    /\ selected_agents' = <<>>
    /\ workflow' = {}
    /\ responded' = 0
    /\ delivered' = 0
    /\ UNCHANGED <<sessions, session_metadata, clockvars, gcvars, svcvars, last_read, last_analysis, synthesis>>

\* session_id = request.session_id or create_session(); the user message is added
WfOpenSession ==
    /\ pc = "wf_session"
    /\ LET o == OpenSession(request)
       IN /\ session_id' = o.sid
          /\ sessions' = o.sessions
          /\ session_metadata' = o.metadata
          /\ next_uuid' = IF o.created THEN next_uuid + 1 ELSE next_uuid
    /\ pc' = "wf_build"
    /\ UNCHANGED <<clockvars, runs, request, messages, current_turn, agent_idx,
                   response, gcvars, wfvars, histvars, svcvars, last_read, last_analysis, synthesis>>

\* _build_group_chat_workflow: every name is resolved; the names whose agent
\* was constructed are registered; with none registered it raises ValueError.
\* responded is the number of agents that answer inside the workflow once
\* run_stream is started.
WfBuild ==
    /\ pc = "wf_build"
    /\ \E registered \in SUBSET {n \in Range(request.agents) :
                                    "agent" \in GetAgentOutcomes(n)} :
         /\ workflow' = registered
         /\ IF registered = {}
              THEN /\ response' = Raised("workflow", "ValueError")
                   /\ pc' = "done"
                   /\ responded' = 0
              ELSE /\ response' = response
                   /\ pc' = "wf_stream"
                   /\ responded' \in 0..MaxEvents
    /\ resolved' = resolved + Len(request.agents)
    /\ attempt' = 0
    /\ delivered' = 0
    /\ UNCHANGED <<smvars, clockvars, runs, request, session_id, messages,
                   current_turn, agent_idx, gcvars, agent_responses,
                   selected_agents, invoked, failed, sessions0, gate_log,
                   stream_errors, svcvars, last_read, last_analysis, synthesis>>

\* a WorkflowOutputEvent of the stream: the text is passed to the output
\* filter and, when that call returns, collected
WfStreamOutput ==
    /\ pc = "wf_stream"
    /\ delivered < responded
    /\ delivered' = delivered + 1
    /\ \E agent_name \in workflow \cup {"unknown"}, response_text \in AgentTexts :
         LET f == AwaitFilterOutput(cs, response_text, agent_name)
         IN /\ invoked' = Append(invoked, agent_name)
            /\ IF f.raises # "none"
                 THEN /\ response' = Raised("workflow", f.raises)
                      /\ pc' = "done"
                      /\ UNCHANGED <<agent_responses, selected_agents>>
                 ELSE /\ agent_responses' = Append(agent_responses,
                              [agent |-> agent_name, content |-> f.value,
                               filtered |-> 1])
                      /\ selected_agents' = Append(selected_agents, agent_name)
                      /\ UNCHANGED <<response, pc>>
    /\ UNCHANGED <<smvars, clockvars, runs, request, session_id, messages,
                   current_turn, agent_idx, gcvars, attempt, workflow, responded,
                   failed,
                   sessions0, resolved, gate_log, stream_errors, svcvars, last_read, last_analysis, synthesis>>

\* the rate-limit handler with the test attempt < max_retries
WfStreamRateLimit_RetriesLast ==
    /\ pc = "wf_stream"
    /\ IF attempt < max_retries
         THEN /\ attempt' = attempt + 1
              /\ delivered' = 0
              /\ UNCHANGED <<response, pc>>
         ELSE /\ response' = Raised("workflow", "rate_limit")
              /\ pc' = "done"
              /\ UNCHANGED <<attempt, delivered>>
    /\ stream_errors' = Append(stream_errors, "rate_limit")
    /\ UNCHANGED <<smvars, clockvars, runs, request, session_id, messages,
                   current_turn, agent_idx, gcvars, agent_responses,
                   selected_agents, workflow, responded, invoked, failed, sessions0,
                   resolved, gate_log, svcvars, last_read, last_analysis, synthesis>>

\* the stream raises ServiceResponseException with "rate limit" in its text
WfStreamRateLimit ==
    /\ pc = "wf_stream"
    /\ IF attempt < max_retries - 1
         THEN /\ attempt' = attempt + 1
              /\ delivered' = 0
              /\ UNCHANGED <<response, pc>>
         ELSE /\ response' = Raised("workflow", "rate_limit")
              /\ pc' = "done"
              /\ UNCHANGED <<attempt, delivered>>
    /\ stream_errors' = Append(stream_errors, "rate_limit")
    /\ UNCHANGED <<smvars, clockvars, runs, request, session_id, messages,
                   current_turn, agent_idx, gcvars, agent_responses,
                   selected_agents, workflow, responded, invoked, failed, sessions0,
                   resolved, gate_log, svcvars, last_read, last_analysis, synthesis>>

\* the stream raises another ServiceResponseException or another Exception
WfStreamError ==
    /\ pc = "wf_stream"
    /\ \E error \in {"ServiceResponseException", "Exception"} :
         /\ response' = Raised("workflow", error)
         /\ stream_errors' = Append(stream_errors, error)
    /\ pc' = "done"
    /\ UNCHANGED <<smvars, clockvars, runs, request, session_id, messages,
                   current_turn, agent_idx, gcvars, wfvars, invoked, failed,
                   sessions0, resolved, gate_log, svcvars, last_read, last_analysis, synthesis>>

\* the stream ends: break
WfStreamEnd ==
    /\ pc = "wf_stream"
    /\ delivered = responded
    /\ pc' = "wf_fallback"
    /\ UNCHANGED <<smvars, clockvars, runs, request, session_id, messages,
                   current_turn, agent_idx, response, gcvars, wfvars, histvars,
                   svcvars, last_read, last_analysis, synthesis>>

\* the fallback leaving agent_responses empty when the manager selected nobody
WfFallback_NoSubstitute ==
    /\ pc = "wf_fallback"
    /\ pc' = "wf_append"
    /\ messages' = <<GroupChatMessage("user", request.message, 0, "user", 0)>>
    /\ current_turn' = 1
    /\ agent_idx' = 1
    /\ UNCHANGED <<smvars, clockvars, runs, request, session_id, gcvars, wfvars,
                   response, histvars, svcvars, last_read, last_analysis, synthesis>>

\* if not agent_responses: the generic agent answers; then messages = [user_message]
WfFallback ==
    /\ pc = "wf_fallback"
    /\ IF agent_responses = <<>>
         THEN \E o \in GetAgentOutcomes("generic_agent") :
                /\ resolved' = resolved + 1
                /\ IF o = "raises"
                     THEN /\ response' = Raised("workflow", "Exception")
                          /\ pc' = "done"
                          /\ UNCHANGED <<agent_responses, selected_agents, invoked>>
                     ELSE /\ \E fallback_response \in AgentTexts :
                               agent_responses' =
                                   <<[agent |-> "generic_agent",
                                      content |-> fallback_response,
                                      filtered |-> 0]>>
                          /\ selected_agents' = <<"generic_agent">>
                          /\ invoked' = Append(invoked, "generic_agent")
                          /\ pc' = "wf_append"
                          /\ response' = response
         ELSE /\ pc' = "wf_append"
              /\ UNCHANGED <<agent_responses, selected_agents, invoked,
                             resolved, response>>
    /\ messages' = <<GroupChatMessage("user", request.message, 0, "user", 0)>>
    /\ current_turn' = 1
    /\ agent_idx' = 1
    /\ UNCHANGED <<smvars, clockvars, runs, request, session_id, gcvars, attempt,
                   workflow, responded, delivered, failed, sessions0, gate_log, stream_errors, svcvars,
                   last_read, last_analysis, synthesis>>

\* for resp in agent_responses: the message is built and added to the session
WfAppend ==
    /\ pc = "wf_append"
    /\ agent_idx <= Len(agent_responses)
    /\ LET resp == agent_responses[agent_idx]
           message == GroupChatMessage(resp.agent, resp.content, current_turn,
                                       "response", resp.filtered)
           r == SmAdd(sessions, session_metadata, session_id, message, now)
       IN /\ messages' = Append(messages, message)
          /\ sessions' = r.sessions
          /\ session_metadata' = r.metadata
    /\ current_turn' = current_turn + 1
    /\ agent_idx' = agent_idx + 1
    /\ UNCHANGED <<next_uuid, clockvars, runs, pc, request, session_id, response,
                   gcvars, wfvars, histvars, svcvars, last_read, last_analysis, synthesis>>

(***************************************************************************)
(* Composing one answer from the agent responses                           *)
(* A text is a sequence of pieces; a piece is a literal of a format string *)
(* or a value put into it.                                                 *)
(***************************************************************************)
Tokens(content) == <<content>>

\* "\n\n".join(parts)
RECURSIVE Join(_)
Join(parts) ==
    IF parts = <<>> THEN <<>>
    ELSE IF Len(parts) = 1 THEN parts[1]
    ELSE parts[1] \o <<"\n\n">> \o Join(Tail(parts))

\* text.split(sep, 1)[1]
AfterFirst(text, sep) ==
    LET i == CHOOSE k \in 1..Len(text) :
                 text[k] = sep /\ \A j \in 1..(k - 1) : text[j] # sep
    IN SubSeq(text, i + 1, Len(text))

\* text.strip()
RECURSIVE Strip(_)
Strip(text) ==
    IF text = <<>> THEN <<>>
    ELSE IF Head(text) = " " THEN Strip(Tail(text))
    ELSE IF text[Len(text)] = " " THEN Strip(SubSeq(text, 1, Len(text) - 1))
    ELSE text

\* what GenericAgent.run returns: the model's answer, or its own apology text
\* when the provider call raised
SynthesisAnswer == <<"synthesis">>
ApologyText == <<"I apologize, but I encountered an error: ">>

\* get_agent("generic_agent") and then generic_agent.run(prompt)
SynthesisOutcomes ==
    { [get_agent |-> g, run |-> r] :
          g \in GetAgentOutcomes("generic_agent"), r \in {"answers", "fails"} }

RunText(outcome) == IF outcome.run = "answers" THEN SynthesisAnswer ELSE ApologyText

\* f"**{agent_name}**: {response_text}"
ExpertResponse(agent_name, response_text) ==
    <<"**", agent_name, "**", ": ">> \o response_text

\* WorkflowOrchestrationService._synthesize_responses; results are the
\* MockResult objects: agent_name and the text of agent_run_response
WfSynthesizeResponses(results, outcome) ==
    LET expert_responses ==
            [i \in 1..Len(results) |->
                 ExpertResponse(results[i].agent_name, results[i].text)]
    IN IF expert_responses = <<>>
         THEN [text |-> <<"No agent responses to synthesize.">>, called |-> FALSE]
       ELSE IF Len(expert_responses) = 1
         THEN [text |-> AfterFirst(expert_responses[1], ": "), called |-> FALSE]
       ELSE IF outcome.get_agent = "none"
         THEN [text |-> Join(expert_responses), called |-> TRUE]
       ELSE IF outcome.get_agent = "raises"
         THEN [text |-> Join(expert_responses), called |-> TRUE]
       ELSE [text |-> RunText(outcome), called |-> TRUE]

\* ResponseFormatterService._get_agent_display_name
DisplayName(agent_name) ==
    IF agent_name = "generic_agent" THEN "General Assistant"
    ELSE IF agent_name = "people_lookup" THEN "People Finder"
    ELSE IF agent_name = "gemini_agent" THEN "Gemini Agent"
    ELSE IF agent_name = "nobody" THEN "Nobody"
    ELSE agent_name

\* the agents of a list of messages in the order of their first message
RECURSIVE FirstAppearance(_)
FirstAppearance(msgs) ==
    IF msgs = <<>> THEN <<>>
    ELSE LET rest == FirstAppearance(SubSeq(msgs, 1, Len(msgs) - 1))
             a == msgs[Len(msgs)].agent
         IN IF a \in Range(rest) THEN rest ELSE Append(rest, a)

\* responses[-1] of one agent
LatestOf(msgs, a) ==
    msgs[CHOOSE i \in 1..Len(msgs) :
             msgs[i].agent = a /\ \A j \in (i + 1)..Len(msgs) : msgs[j].agent # a].content

\* ResponseFormatterService._synthesize_responses: run() returns a str, which
\* has no attribute text, so the attributed concatenation is what it returns
FmtSynthesizeResponses(agent_messages, outcome) ==
    LET order == FirstAppearance(agent_messages)
        named == SelectSeq(order,
                     LAMBDA a : Strip(LatestOf(agent_messages, a)) # <<>>)
        synthesized_parts ==
            [i \in 1..Len(named) |->
                 <<"**", DisplayName(named[i]), ":**\n">>
                     \o Strip(LatestOf(agent_messages, named[i]))]
    IN IF synthesized_parts = <<>>
         THEN [text |-> <<"I apologize, but I wasn't able to generate a proper response from the available agents.">>,
               called |-> TRUE]
       ELSE [text |-> Join(synthesized_parts), called |-> TRUE]

\* ResponseFormatterService._format_user_friendly_response: the content
FormatUserFriendly(msgs, outcome) ==
    LET agent_messages == SelectSeq(msgs, LAMBDA m : m.agent # "user")
    IN IF agent_messages = <<>>
         THEN [text |-> <<"No agent responses received.">>, called |-> FALSE]
       ELSE IF Cardinality({agent_messages[i].agent : i \in 1..Len(agent_messages)}) = 1
         THEN [text |-> agent_messages[Len(agent_messages)].content, called |-> FALSE]
       ELSE FmtSynthesizeResponses(agent_messages, outcome)

\* mock_results of execute_workflow
MockResults(responses) ==
    [i \in 1..Len(responses) |->
         [agent_name |-> responses[i].agent, text |-> Tokens(responses[i].content)]]

\* the synthesized message when more than one agent responded, and the response
WfRespond ==
    /\ pc = "wf_append"
    /\ agent_idx > Len(agent_responses)
    /\ IF Len(agent_responses) > 1
         THEN \E outcome \in SynthesisOutcomes :
                LET synthesized_text ==
                        WfSynthesizeResponses(MockResults(agent_responses),
                                              outcome).text
                    synthesized_message ==
                        GroupChatMessage("workflow_synthesizer", synthesized_text,
                                         current_turn, "synthesized", 0)
                    r == SmAdd(sessions, session_metadata, session_id,
                               synthesized_message, now)
                IN /\ messages' = Append(messages, synthesized_message)
                   /\ sessions' = r.sessions
                   /\ session_metadata' = r.metadata
         ELSE UNCHANGED <<messages, sessions, session_metadata>>
    /\ response' = Response("returned", "workflow", messages', session_id, 1,
                            selected_agents, {}, FALSE, "")
    /\ pc' = "done"
    /\ UNCHANGED <<next_uuid, clockvars, runs, request, session_id, current_turn,
                   agent_idx, gcvars, wfvars, histvars, svcvars, last_read, last_analysis, synthesis>>

(***************************************************************************)
(* routers/chat.py: POST /chat with one agent                              *)
(***************************************************************************)
ChatRequests ==
    [message : {UserText}, agents : {<<"generic_agent">>, <<"nobody">>},
     session_id : {None, CallerSessionId}, max_turns : MaxTurnsChoices]

\* chat: the input analysis, then the session id and the history read
ChatStart ==
    /\ pc = "idle"
    /\ runs < MaxRuns
    /\ \E req \in ChatRequests, outcome \in ClassifierOutcomes :
         LET user_safety == AnalyzeTextAsync(cs, req.message, outcome)
             created == req.session_id = None
             r0 == IF created
                   THEN SmCreate(sessions, session_metadata, next_uuid, now)
                   ELSE [sessions |-> sessions,
                         metadata |-> SmTouch(session_metadata, req.session_id, now)]
         IN /\ request' = req
            /\ gate_log' = <<GateEntry(cs, "input", req.message, outcome)>>
            /\ IF ~IsSafe(user_safety)
                 THEN /\ response' = Raised("chat", "HTTP400")
                      /\ pc' = "done"
                      /\ session_id' = None
                      /\ UNCHANGED smvars
                 ELSE /\ response' = NoResponse
                      /\ pc' = "chat_agent"
                      /\ session_id' = IF created THEN next_uuid ELSE req.session_id
                      /\ sessions' = r0.sessions
                      /\ session_metadata' = r0.metadata
                      /\ next_uuid' = IF created THEN next_uuid + 1 ELSE next_uuid
    /\ runs' = runs + 1
    /\ sessions0' = sessions
    /\ messages' = <<>>
    /\ current_turn' = 0
    /\ agent_idx' = 0
    /\ invoked' = <<>>
    /\ failed' = {}
    /\ resolved' = 0
    /\ stream_errors' = <<>>
    /\ UNCHANGED <<clockvars, gcvars, wfvars, svcvars, last_read, last_analysis, synthesis>>

\* chat_with_agent fails (no agent, or its construction raises): HTTP 500
ChatAgentFails ==
    /\ pc = "chat_agent"
    /\ GetAgentOutcomes(request.agents[1]) \cap {"none", "raises"} # {}
    /\ response' = Raised("chat", "HTTP500")
    /\ pc' = "done"
    /\ resolved' = resolved + 1
    /\ UNCHANGED <<smvars, clockvars, runs, request, session_id, messages,
                   current_turn, agent_idx, gcvars, wfvars, invoked, failed,
                   sessions0, gate_log, stream_errors, svcvars, last_read, last_analysis, synthesis>>

\* the agent answers; its text is analysed and, when unsafe, filtered; the user
\* message and the agent message are added to the session
ChatAgentResponds ==
    /\ pc = "chat_agent"
    /\ LET agent_name == request.agents[1]
       IN /\ "agent" \in GetAgentOutcomes(agent_name)
          /\ \E agent_content \in AgentTexts, outcome \in ClassifierOutcomes :
               LET out_safety == AnalyzeTextAsync(cs, agent_content, outcome)
                   content == IF ~IsSafe(out_safety)
                              THEN FilterOutput(cs, agent_content, out_safety).value
                              ELSE agent_content
                   user_message == GroupChatMessage("user", request.message, 0,
                                                    "user", 0)
                   agent_message == GroupChatMessage(agent_name, content, 1,
                                                     "response", 1)
                   r1 == SmAdd(sessions, session_metadata, session_id,
                               user_message, now)
                   r2 == SmAdd(r1.sessions, r1.metadata, session_id,
                               agent_message, now)
               IN /\ sessions' = r2.sessions
                  /\ session_metadata' = r2.metadata
                  /\ messages' = <<agent_message>>
                  /\ gate_log' = Append(gate_log,
                                     GateEntry(cs, "output", agent_content, outcome))
                  /\ response' = Response("returned", "chat", <<agent_message>>,
                                     session_id, 1, <<agent_name>>, {}, FALSE, "")
          /\ invoked' = Append(invoked, agent_name)
    /\ pc' = "done"
    /\ resolved' = resolved + 1
    /\ UNCHANGED <<next_uuid, clockvars, runs, request, session_id, current_turn,
                   agent_idx, gcvars, wfvars, failed, sessions0, stream_errors,
                   svcvars, last_read, last_analysis, synthesis>>

\* the caller takes the result; the handler's locals go away
(***************************************************************************)
(* routers/chat.py: POST /chat-from-template                               *)
(***************************************************************************)
\* the messages as the formatter reads them: agent and content
FormatterInput(msgs) ==
    [i \in 1..Len(msgs) |->
         [agent |-> msgs[i].agent, content |-> Tokens(msgs[i].content)]]

\* chat_from_template after create_from_template returned: the response of
\* start_group_chat is formatted as user_friendly
FormatGroupChat ==
    /\ pc = "done"
    /\ response.service = "group_chat"
    /\ response.status = "returned"
    /\ synthesis = NoSynthesis
    /\ \E outcome \in SynthesisOutcomes :
         LET msgs == FormatterInput(response.messages)
             r == FormatUserFriendly(msgs, outcome)
         IN synthesis' = [source |-> "formatter", input |-> msgs,
                          outcome |-> outcome, text |-> r.text,
                          called |-> r.called]
    /\ UNCHANGED <<smvars, clockvars, runs, runvars, svcvars, last_read, last_analysis>>

Finish ==
    /\ pc = "done"
    /\ pc' = "idle"
    /\ request' = NoRequest
    /\ session_id' = None
    /\ messages' = <<>>
    /\ terminated_agents' = {}
    /\ turn' = 0
    /\ current_turn' = 0
    /\ agent_idx' = 0
    /\ response' = NoResponse
    /\ invoked' = <<>>
    /\ failed' = {}
    /\ sessions0' = <<>>
    /\ attempt' = 0
    /\ agent_responses' = <<>>
    /\ selected_agents' = <<>>
    /\ workflow' = {}
    /\ responded' = 0
    /\ delivered' = 0
    /\ resolved' = 0
    /\ gate_log' = <<>>
    /\ stream_errors' = <<>>
    /\ synthesis' = NoSynthesis
    /\ UNCHANGED <<smvars, clockvars, runs, svcvars, last_read, last_analysis>>

Next ==
    \/ WfStart
    \/ WfOpenSession
    \/ WfBuild
    \/ WfStreamOutput
    \/ WfStreamRateLimit
    \/ WfStreamError
    \/ WfStreamEnd
    \/ WfFallback
    \/ WfAppend
    \/ WfRespond
    \/ ChatStart
    \/ ChatAgentFails
    \/ ChatAgentResponds
    \/ GcStart
    \/ GcSkipTerminated
    \/ GcAgentNotFound
    \/ GcGetAgentRaises
    \/ GcInvoke
    \/ GcAgentResponds
    \/ GcAgentTimeout
    \/ GcEndRound
    \/ GcRespond
    \/ FormatGroupChat
    \/ Finish

Spec == Init /\ [][Next]_vars

\* a step of start_group_chat after its start
GcStep ==
    \/ GcSkipTerminated
    \/ GcAgentNotFound
    \/ GcGetAgentRaises
    \/ GcInvoke
    \/ GcAgentResponds
    \/ GcAgentTimeout
    \/ GcEndRound
    \/ GcRespond

\* the event loop resumes the coroutine of start_group_chat whenever the
\* awaited call has returned or raised, and asyncio.wait_for ends the wait
\* for an agent after 60 seconds
SpecLive == Init /\ [][Next]_vars /\ WF_vars(GcStep)

(***************************************************************************)
(* The two synthesis functions applied to any list of responses            *)
(***************************************************************************)
\* a response text without and with the separator of the attribution
ResponseTexts == { <<"X">>, <<"Y", ": ", "Z">> }

BoundedSeq(S, n) == UNION {[1..k -> S] : k \in 0..n}

\* lists of agent responses in the order they were collected
ResponseLists ==
    BoundedSeq([agent_name : KnownAgents, text : ResponseTexts], MaxResponses)

\* WorkflowOrchestrationService._synthesize_responses(results, original_query)
SynthesizeWorkflow ==
    /\ synthesis = NoSynthesis
    /\ \E results \in ResponseLists, outcome \in SynthesisOutcomes :
         LET r == WfSynthesizeResponses(results, outcome)
         IN synthesis' = [source |-> "workflow", input |-> results,
                          outcome |-> outcome, text |-> r.text,
                          called |-> r.called]
    /\ UNCHANGED <<smvars, clockvars, runs, runvars, svcvars, last_read, last_analysis>>

\* ResponseFormatterService._format_user_friendly_response(group_response)
SynthesizeFormatter ==
    /\ synthesis = NoSynthesis
    /\ \E results \in ResponseLists, outcome \in SynthesisOutcomes :
         LET msgs == <<[agent |-> "user", content |-> Tokens(UserText)]>>
                     \o [i \in 1..Len(results) |->
                             [agent |-> results[i].agent_name,
                              content |-> results[i].text]]
             r == FormatUserFriendly(msgs, outcome)
         IN synthesis' = [source |-> "formatter", input |-> msgs,
                          outcome |-> outcome, text |-> r.text,
                          called |-> r.called]
    /\ UNCHANGED <<smvars, clockvars, runs, runvars, svcvars, last_read, last_analysis>>

NextSynth ==
    \/ SynthesizeWorkflow
    \/ SynthesizeFormatter

\* the Synthesizer driven through its two implementations
SpecSynth == Init /\ [][NextSynth]_vars

(***************************************************************************)
(* services/agent_service.py: get_agent_async called concurrently          *)
(***************************************************************************)
\* the names the callers ask for: a standard agent, a Foundry-typed agent
\* and a name of no type
DirectoryNames == {"generic_agent"} \cup FoundryAgents \cup {UnknownAgent}

\* cache_key = f"{agent_name}_{enable_memory}"
CacheKey(agent_name, enable_memory) == <<agent_name, enable_memory>>

\* what awaiting initialize() ends in
InitializeOutcomes == {"ok", "raises"}

\* if foundry_agent is not None: return foundry_agent
UseFoundry_Never(foundry_agent) == FALSE
UseFoundry(foundry_agent) == foundry_agent # None

\* get_agent_async calls begun so far
CallsStarted ==
    Len(finished) + Cardinality({c \in Callers : calls[c].pc # "idle"})

\* the record of a call of caller c that ends now; foundry_ok tells whether
\* the creation of the Foundry agent gave the call an agent
Ended(service, c, call, result, agent, path) ==
    [service |-> service, by |-> c, agent_name |-> call.agent_name,
     enable_memory |-> call.enable_memory, result |-> result, agent |-> agent,
     path |-> path, foundry_ok |-> call.foundry_ok, waited |-> call.waited]

\* agent = create_agent(agent_name): a new object
Construct(agent_name, path, c) ==
    Append(constructed, [agent_name |-> agent_name, path |-> path, by |-> c])

\* get_agent_async from its start to its first suspension: the cache test, the
\* dispatch on the type; a standard agent is created, initialised, cached and
\* returned without a suspension; for a Foundry-typed name the Foundry cache
\* is tested and the lock is taken or waited for
GaCall(c) ==
    /\ calls[c].pc = "idle"
    /\ CallsStarted < MaxCalls
    /\ \E agent_name \in DirectoryNames, enable_memory \in BOOLEAN,
          init \in InitializeOutcomes :
         LET agent_type == DetermineAgentType(agent_name)
             cache_key == CacheKey(agent_name, enable_memory)
             call == [IdleCall EXCEPT !.agent_name = agent_name,
                                      !.enable_memory = enable_memory]
             hit == [call EXCEPT !.foundry_ok = TRUE]
             new == Len(constructed) + 1
         IN IF cache_key \in DOMAIN agents
              THEN /\ finished' = Append(finished,
                         Ended("agent_service", c, call, "agent",
                               agents[cache_key], "cache"))
                   /\ UNCHANGED <<agents, foundry_agent_cache,
                                  foundry_agent_cache_lock, constructed, calls>>
            ELSE IF agent_type = "ms_foundry_agent"
              THEN IF agent_name \in DOMAIN foundry_agent_cache
                     THEN IF UseFoundry(foundry_agent_cache[agent_name])
                            THEN /\ agents' = Put(agents, cache_key,
                                           foundry_agent_cache[agent_name])
                                 /\ finished' = Append(finished,
                                       Ended("agent_service", c, hit, "agent",
                                             foundry_agent_cache[agent_name],
                                             "foundry"))
                                 /\ UNCHANGED <<foundry_agent_cache,
                                                foundry_agent_cache_lock,
                                                constructed, calls>>
                            ELSE /\ constructed' =
                                       Construct(agent_name, "standard", c)
                                 /\ calls' = [calls EXCEPT ![c] =
                                       [hit EXCEPT !.pc = "standard_init",
                                                   !.agent = new]]
                                 /\ UNCHANGED <<agents, foundry_agent_cache,
                                                foundry_agent_cache_lock,
                                                finished>>
                   ELSE IF foundry_agent_cache_lock = NoCaller
                     THEN /\ foundry_agent_cache_lock' = c
                          /\ constructed' = Construct(agent_name, "foundry", c)
                          /\ calls' = [calls EXCEPT ![c] =
                                [call EXCEPT !.pc = "foundry_init", !.agent = new]]
                          /\ UNCHANGED <<agents, foundry_agent_cache, finished>>
                   ELSE /\ calls' = [calls EXCEPT ![c] =
                                [call EXCEPT !.pc = "lock_wait",
                                             !.waited = TRUE]]
                        /\ UNCHANGED <<agents, foundry_agent_cache,
                                       foundry_agent_cache_lock, constructed,
                                       finished>>
            ELSE IF agent_type \in StandardAgentTypes
              THEN /\ constructed' = Construct(agent_name, "standard", c)
                   /\ IF init = "ok" /\ InitializeSetsAgent(agent_name)
                        THEN /\ agents' = Put(agents, cache_key, new)
                             /\ finished' = Append(finished,
                                   Ended("agent_service", c, call, "agent", new,
                                         "standard"))
                        ELSE /\ agents' = agents
                             /\ finished' = Append(finished,
                                   Ended("agent_service", c, call, "raises", None,
                                         "standard"))
                   /\ UNCHANGED <<foundry_agent_cache, foundry_agent_cache_lock,
                                  calls>>
            ELSE /\ finished' = Append(finished,
                       Ended("agent_service", c, call, "None", None, "none"))
                 /\ UNCHANGED <<agents, foundry_agent_cache,
                                foundry_agent_cache_lock, constructed, calls>>
    /\ UNCHANGED <<new_foundry_agent_cache, new_foundry_agent_cache_lock>>
    /\ UNCHANGED <<smvars, clockvars, runs, runvars, gatevars, inflight,
                   storehist, last_read, last_analysis, synthesis>>

\* async with self._foundry_agent_cache_lock: the lock is granted to a waiting
\* call, which tests the Foundry cache again and creates the agent on a miss
GaLockAcquired(c) ==
    /\ calls[c].pc = "lock_wait"
    /\ foundry_agent_cache_lock = NoCaller
    /\ LET call == calls[c]
           hit == [call EXCEPT !.foundry_ok = TRUE]
           cache_key == CacheKey(call.agent_name, call.enable_memory)
       IN IF call.agent_name \in DOMAIN foundry_agent_cache
            THEN IF UseFoundry(foundry_agent_cache[call.agent_name])
                   THEN /\ agents' = Put(agents, cache_key,
                                         foundry_agent_cache[call.agent_name])
                        /\ finished' = Append(finished,
                              Ended("agent_service", c, hit, "agent",
                                    foundry_agent_cache[call.agent_name],
                                    "foundry"))
                        /\ calls' = [calls EXCEPT ![c] = IdleCall]
                        /\ UNCHANGED <<foundry_agent_cache,
                                       foundry_agent_cache_lock, constructed>>
                   ELSE /\ constructed' =
                              Construct(call.agent_name, "standard", c)
                        /\ calls' = [calls EXCEPT ![c] =
                              [hit EXCEPT !.pc = "standard_init",
                                          !.agent = Len(constructed) + 1]]
                        /\ UNCHANGED <<agents, foundry_agent_cache,
                                       foundry_agent_cache_lock, finished>>
            ELSE /\ foundry_agent_cache_lock' = c
                 /\ constructed' = Construct(call.agent_name, "foundry", c)
                 /\ calls' = [calls EXCEPT ![c] =
                       [call EXCEPT !.pc = "foundry_init",
                                    !.agent = Len(constructed) + 1]]
                 /\ UNCHANGED <<agents, foundry_agent_cache, finished>>
    /\ UNCHANGED <<new_foundry_agent_cache, new_foundry_agent_cache_lock>>
    /\ UNCHANGED <<smvars, clockvars, runs, runvars, gatevars, inflight,
                   storehist, last_read, last_analysis, synthesis>>

\* _create_foundry_agent_async after await agent.initialize(): the agent is
\* validated, cached and returned, or the exception is caught and None is
\* returned; on None _get_microsoft_foundry_agent goes on to
\* _create_standard_agent_async, which creates an agent and awaits initialize()
GaFoundryInitialized(c) ==
    /\ calls[c].pc = "foundry_init"
    /\ \E init \in InitializeOutcomes :
         LET created == init = "ok" /\ InitializeSetsAgent(calls[c].agent_name)
             foundry_agent == IF created THEN calls[c].agent ELSE None
             call == [calls[c] EXCEPT !.foundry_ok = created]
             cache_key == CacheKey(call.agent_name, call.enable_memory)
         IN /\ foundry_agent_cache' =
                  IF created
                  THEN Put(foundry_agent_cache, call.agent_name, call.agent)
                  ELSE foundry_agent_cache
            /\ IF UseFoundry(foundry_agent)
                 THEN /\ agents' = Put(agents, cache_key, foundry_agent)
                      /\ finished' = Append(finished,
                            Ended("agent_service", c, call, "agent",
                                  foundry_agent, "foundry"))
                      /\ calls' = [calls EXCEPT ![c] = IdleCall]
                      /\ UNCHANGED constructed
                 ELSE /\ constructed' =
                            Construct(call.agent_name, "standard", c)
                      /\ calls' = [calls EXCEPT ![c] =
                            [call EXCEPT !.pc = "standard_init",
                                         !.agent = Len(constructed) + 1]]
                      /\ UNCHANGED <<agents, finished>>
    /\ foundry_agent_cache_lock' = NoCaller
    /\ UNCHANGED <<new_foundry_agent_cache, new_foundry_agent_cache_lock>>
    /\ UNCHANGED <<smvars, clockvars, runs, runvars, gatevars, inflight,
                   storehist, last_read, last_analysis, synthesis>>

\* _create_standard_agent_async after await agent.initialize(): the agent is
\* validated and returned to get_agent_async, which caches it, or the
\* exception leaves get_agent_async
GaStandardInitialized(c) ==
    /\ calls[c].pc = "standard_init"
    /\ \E init \in InitializeOutcomes :
         LET call == calls[c]
             cache_key == CacheKey(call.agent_name, call.enable_memory)
         IN IF init = "ok" /\ InitializeSetsAgent(call.agent_name)
              THEN /\ agents' = Put(agents, cache_key, call.agent)
                   /\ finished' = Append(finished,
                         Ended("agent_service", c, call, "agent", call.agent,
                               "standard"))
              ELSE /\ agents' = agents
                   /\ finished' = Append(finished,
                         Ended("agent_service", c, call, "raises", None,
                               "standard"))
    /\ calls' = [calls EXCEPT ![c] = IdleCall]
    /\ UNCHANGED <<foundry_agent_cache, foundry_agent_cache_lock, constructed>>
    /\ UNCHANGED <<new_foundry_agent_cache, new_foundry_agent_cache_lock>>
    /\ UNCHANGED <<smvars, clockvars, runs, runvars, gatevars, inflight,
                   storehist, last_read, last_analysis, synthesis>>

(***************************************************************************)
(* services/agent_service_new.py: the AgentService main.py constructs      *)
(***************************************************************************)
\* the names its callers ask for
NewDirectoryNames == {"generic_agent", "ms_foundry_people_agent", UnknownAgent}

\* _determine_agent_type of agent_service_new.py
NewDetermineAgentType(normalized_agent_name) ==
    IF normalized_agent_name = "ms_foundry_people_agent" THEN "ms_foundry_agent"
    ELSE IF normalized_agent_name = "generic_agent" THEN "azure_openai_agent"
    ELSE normalized_agent_name

\* return await self._create_standard_agent_async(...): an agent is built and
\* initialize_async() awaited; the call ends with the agent or the exception.
\* No state of the service is read or written after the suspension.
NewStandardAgent(c, call, init) ==
    /\ constructed' = Construct(call.agent_name, "standard", c)
    /\ finished' = Append(finished,
          IF init = "ok"
          THEN Ended("agent_service_new", c, call, "agent",
                     Len(constructed) + 1, "standard")
          ELSE Ended("agent_service_new", c, call, "raises", None, "standard"))

\* create_azure_foundry_agent_async at the cache test made with or without
\* the lock held: a cached agent is returned to _get_microsoft_foundry_agent;
\* on a miss the call takes the lock, builds the agent and awaits
\* initialize_async()
NewFoundryLookup(c, call, init) ==
    IF call.agent_name \in DOMAIN new_foundry_agent_cache
      THEN /\ IF UseFoundry(new_foundry_agent_cache[call.agent_name])
                THEN /\ finished' = Append(finished,
                           Ended("agent_service_new", c,
                                 [call EXCEPT !.foundry_ok = TRUE], "agent",
                                 new_foundry_agent_cache[call.agent_name],
                                 "foundry"))
                     /\ UNCHANGED constructed
                ELSE NewStandardAgent(c, [call EXCEPT !.foundry_ok = TRUE], init)
           /\ calls' = [calls EXCEPT ![c] = IdleCall]
           /\ UNCHANGED new_foundry_agent_cache_lock
      ELSE /\ new_foundry_agent_cache_lock' = c
           /\ constructed' = Construct(call.agent_name, "foundry", c)
           /\ calls' = [calls EXCEPT ![c] =
                 [call EXCEPT !.pc = "new_foundry_init",
                              !.agent = Len(constructed) + 1]]
           /\ UNCHANGED finished

\* get_agent_async of agent_service_new.py to its first suspension that
\* matters: no cache is consulted or written for a standard type, an agent is
\* built in every call; a Foundry-typed name goes to
\* _get_microsoft_foundry_agent, which builds the standard agent when the
\* Foundry settings are absent and else looks for the Foundry agent; a name of
\* no type yields None
NewGetAgentAsync(c) ==
    /\ calls[c].pc = "idle"
    /\ CallsStarted < MaxCalls
    /\ \E agent_name \in NewDirectoryNames, enable_memory \in BOOLEAN,
          init \in InitializeOutcomes, has_foundry_config \in BOOLEAN :
         LET agent_type == NewDetermineAgentType(agent_name)
             call == [IdleCall EXCEPT !.agent_name = agent_name,
                                      !.enable_memory = enable_memory]
         IN IF agent_type = "ms_foundry_agent"
              THEN IF ~has_foundry_config
                     THEN /\ NewStandardAgent(c, call, init)
                          /\ UNCHANGED <<new_foundry_agent_cache_lock, calls>>
                   ELSE IF agent_name \in DOMAIN new_foundry_agent_cache
                           \/ new_foundry_agent_cache_lock = NoCaller
                     THEN NewFoundryLookup(c, call, init)
                   ELSE /\ calls' = [calls EXCEPT ![c] =
                                [call EXCEPT !.pc = "new_lock_wait",
                                             !.waited = TRUE]]
                        /\ UNCHANGED <<new_foundry_agent_cache_lock,
                                       constructed, finished>>
            ELSE IF agent_type \in {"azure_openai_agent", "bedrock_agent",
                                    "openai_agent"}
              THEN /\ NewStandardAgent(c, call, init)
                   /\ UNCHANGED <<new_foundry_agent_cache_lock, calls>>
            ELSE /\ finished' = Append(finished,
                       Ended("agent_service_new", c, call, "None", None, "none"))
                 /\ UNCHANGED <<new_foundry_agent_cache_lock, constructed,
                                calls>>
    /\ UNCHANGED <<agents, foundry_agent_cache, foundry_agent_cache_lock,
                   new_foundry_agent_cache>>
    /\ UNCHANGED <<smvars, clockvars, runs, runvars, gatevars, inflight,
                   storehist, last_read, last_analysis, synthesis>>

\* async with self._foundry_agent_cache_lock of agent_service_new.py: the lock
\* is granted to a waiting call, which tests the cache again
NewLockAcquired(c) ==
    /\ calls[c].pc = "new_lock_wait"
    /\ new_foundry_agent_cache_lock = NoCaller
    /\ \E init \in InitializeOutcomes : NewFoundryLookup(c, calls[c], init)
    /\ UNCHANGED <<agents, foundry_agent_cache, foundry_agent_cache_lock,
                   new_foundry_agent_cache>>
    /\ UNCHANGED <<smvars, clockvars, runs, runvars, gatevars, inflight,
                   storehist, last_read, last_analysis, synthesis>>

\* create_azure_foundry_agent_async after await
\* foundry_agent.initialize_async(): the agent is cached and returned, or the
\* exception is caught and None returned; the lock is released;
\* _get_microsoft_foundry_agent returns the Foundry agent or builds the
\* standard one
NewFoundryInitialized(c) ==
    /\ calls[c].pc = "new_foundry_init"
    /\ \E init, init2 \in InitializeOutcomes :
         LET created == init = "ok"
             foundry_agent == IF created THEN calls[c].agent ELSE None
             call == [calls[c] EXCEPT !.foundry_ok = created]
         IN /\ new_foundry_agent_cache' =
                  IF created
                  THEN Put(new_foundry_agent_cache, call.agent_name, call.agent)
                  ELSE new_foundry_agent_cache
            /\ IF UseFoundry(foundry_agent)
                 THEN /\ finished' = Append(finished,
                            Ended("agent_service_new", c, call, "agent",
                                  foundry_agent, "foundry"))
                      /\ UNCHANGED constructed
                 ELSE NewStandardAgent(c, call, init2)
    /\ calls' = [calls EXCEPT ![c] = IdleCall]
    /\ new_foundry_agent_cache_lock' = NoCaller
    /\ UNCHANGED <<agents, foundry_agent_cache, foundry_agent_cache_lock>>
    /\ UNCHANGED <<smvars, clockvars, runs, runvars, gatevars, inflight,
                   storehist, last_read, last_analysis, synthesis>>

NextAgents ==
    \/ \E c \in Callers : GaCall(c)
    \/ \E c \in Callers : GaLockAcquired(c)
    \/ \E c \in Callers : GaFoundryInitialized(c)
    \/ \E c \in Callers : GaStandardInitialized(c)
    \/ \E c \in Callers : NewGetAgentAsync(c)
    \/ \E c \in Callers : NewLockAcquired(c)
    \/ \E c \in Callers : NewFoundryInitialized(c)

\* the Agent Directory driven by concurrent get_agent_async calls; the safety
\* service takes no part in it
InitAgents == InitWith({ServiceConfig(TRUE, TRUE, TRUE, "redact")})
SpecAgents == InitAgents /\ [][NextAgents]_vars

(***************************************************************************)
(* Properties                                                              *)
(***************************************************************************)
WfPcs == {"wf_session", "wf_build", "wf_stream", "wf_fallback", "wf_append"}
GcPcs == {"gc_loop", "gc_wait", "gc_respond"}

\* the request in hand is one of execute_workflow / of start_group_chat
InWorkflow == pc \in WfPcs \/ (pc = "done" /\ response.service = "workflow")
InGroupChat == pc \in GcPcs \/ (pc = "done" /\ response.service = "group_chat")

FailedAgents == {f.agent : f \in failed}
\* the agents that produced a response in this request
Succeeded == Range(invoked) \ FailedAgents
RaisingKinds == {o.kind : o \in RaisingOutcomes}

\* C1: when the input safety check of execute_workflow disallows the user
\* text, the run has ended with the blocked result: no message, no
\* participating agent, and no session was created, no message stored, no agent
\* resolved, no workflow built and no agent invoked.
C1_BlockedBeforeAnyWork ==
    (InWorkflow /\ gate_log # <<>> /\ gate_log[1].stage = "input"
        /\ ~gate_log[1].safe)
    => /\ pc = "done"
       /\ response.status = "returned"
       /\ response.blocked
       /\ response.error = "content_safety_violation"
       /\ response.messages = <<>>
       /\ response.participating_agents = <<>>
       /\ response.total_turns = 0
       /\ sessions = sessions0
       /\ DOMAIN session_metadata = DOMAIN sessions0
       /\ resolved = 0
       /\ workflow = {}
       /\ invoked = <<>>

C1_Witness ==
    /\ pc = "done"
    /\ response.service = "workflow"
    /\ response.blocked
    /\ gate_log # <<>>
    /\ gate_log[1].outcome = "response"
    /\ ~gate_log[1].safe

\* C2: a run of N >= 1 agents in which at least one agent produced a response
\* returns a result, and that result holds exactly one entry for each
\* requested agent.
C2_OneEntryPerAgent ==
    (pc = "done" /\ response.service \in {"workflow", "group_chat"}
        /\ Succeeded # {})
    => /\ response.status = "returned"
       /\ \A a \in Range(request.agents) :
            Cardinality({i \in 1..Len(response.messages) :
                            response.messages[i].agent = a}) = 1

\* an output event of a registered agent was received and the run raised
C2_Witness ==
    /\ pc = "done"
    /\ response.service = "workflow"
    /\ response.status = "raised"
    /\ response.error \in {"TypeError", "AttributeError"}
    /\ invoked # <<>>
    /\ invoked[1] \in Range(request.agents)

\* C3: when k of the N requested agents failed or timed out, 1 <= k < N, the
\* participating agents of the result are the N-k others in request order, and
\* the k failed agents are the ones reported as failed.
C3_ParticipatingAreTheSuccesses ==
    LET k == Cardinality(FailedAgents)
        N == Len(request.agents)
        Ok(a) == a \notin FailedAgents
    IN (pc = "done" /\ response.service = "group_chat"
           /\ response.status = "returned"
           /\ Range(request.agents) \subseteq KnownAgents
           /\ 1 <= k /\ k < N)
       => /\ response.participating_agents = SelectSeq(request.agents, Ok)
          /\ FailedAgents \subseteq response.terminated_agents

\* a returned group chat lists an agent that timed out next to one that answered
C3_Witness ==
    /\ pc = "done"
    /\ response.service = "group_chat"
    /\ response.status = "returned"
    /\ \E f \in failed :
          /\ f.cause = "timeout"
          /\ f.agent \in Range(response.participating_agents)
    /\ Succeeded # {}

\* C4: an agent whose invocation timed out is recorded with the timeout
\* message (the synthetic timeout error) for that agent.
C4_TimeoutRecordedAsTimeout ==
    \A f \in failed :
        f.cause = "timeout"
        => \E i \in 1..Len(messages) :
              messages[i].agent = f.agent /\ messages[i].kind = "timeout"

\* the timed-out agent is terminated and holds an error message, no timeout one
C4_Witness ==
    \E f \in failed :
        /\ f.cause = "timeout"
        /\ f.agent \in terminated_agents
        /\ \E i \in 1..Len(messages) :
              messages[i].agent = f.agent /\ messages[i].kind = "error"
        /\ \A i \in 1..Len(messages) : messages[i].kind # "timeout"

\* C5: the workflow stream is attempted at most 3 times; only a rate-limit
\* error starts another attempt; the third rate-limit error and any other
\* error of the stream end the run with that error.
C5_RateLimitRetry ==
    /\ Len(stream_errors) <= 3
    /\ attempt + 1 <= 3
    /\ pc = "wf_stream" => attempt = Len(stream_errors)
    /\ \A i \in 1..Len(stream_errors) :
         /\ stream_errors[i] # "rate_limit"
            => /\ i = Len(stream_errors)
               /\ pc = "done"
               /\ response.status = "raised"
               /\ response.error = stream_errors[i]
         /\ (stream_errors[i] = "rate_limit" /\ i = 3)
            => /\ pc = "done"
               /\ response.status = "raised"
               /\ response.error = "rate_limit"

C5_Witness ==
    /\ pc = "done"
    /\ response.status = "raised"
    /\ response.error = "rate_limit"
    /\ stream_errors = <<"rate_limit", "rate_limit", "rate_limit">>

\* the messages this request has added to its session so far
StoredByRun ==
    LET cur == SmHistory(sessions, session_id)
        old == SmHistory(sessions0, session_id)
    IN SubSeq(cur, Len(old) + 1, Len(cur))

AgentTurns(seq) == SelectSeq(seq, LAMBDA m : m.agent # "user")
StoredKinds(seq) == SelectSeq(seq, LAMBDA m : m.kind \in {"user", "response"})
IndexOf(seq, a) == CHOOSE i \in 1..Len(seq) : seq[i] = a

\* C6 as stated: once an agent turn of the run is in the Session Store, no
\* further agent is invoked in that run (all results are collected first).
C6_CollectedBeforeAppended ==
    [][(pc \in WfPcs \cup GcPcs /\ session_id # None
           /\ AgentTurns(StoredByRun) # <<>>)
       => invoked' = invoked]_vars

\* C6 amended: start_group_chat stores each response as soon as the agent has
\* returned it, so the stored turns of the run are at every step the user
\* message and the responses received so far, in the order received, which
\* within a round is the order of the requested list; execute_workflow stores
\* only the user message until the stream has ended and then the collected
\* responses in the order collected.
C6_AppendOrder ==
    /\ InGroupChat
       => /\ StoredByRun = StoredKinds(messages)
          /\ \A i, j \in 1..Len(StoredByRun) :
               (i < j /\ StoredByRun[i].agent # "user")
               => /\ StoredByRun[i].turn <= StoredByRun[j].turn
                  /\ StoredByRun[i].turn = StoredByRun[j].turn
                     => IndexOf(request.agents, StoredByRun[i].agent)
                          < IndexOf(request.agents, StoredByRun[j].agent)
    /\ pc \in {"wf_build", "wf_stream", "wf_fallback"}
       => AgentTurns(StoredByRun) = <<>>
    /\ pc = "wf_append"
       => /\ StoredByRun = messages
          /\ \A i \in 1..Len(AgentTurns(StoredByRun)) :
               /\ i <= Len(agent_responses)
               /\ StoredByRun[i + 1].agent = agent_responses[i].agent
               /\ StoredByRun[i + 1].content = agent_responses[i].content

C6_Witness ==
    /\ pc = "gc_loop"
    /\ Len(StoredByRun) = 3
    /\ StoredByRun[2].agent = request.agents[1]
    /\ StoredByRun[3].agent = request.agents[2]
    /\ invoked = request.agents

\* C7: the history of a conversation is strictly increasing in turn-index.
C7_TurnIndexIncreasing ==
    \A sid \in DOMAIN sessions :
        \A i, j \in 1..Len(sessions[sid]) :
            i < j => sessions[sid][i].turn < sessions[sid][j].turn

\* two agents of one round are stored with the same turn
C7_Witness ==
    \E sid \in DOMAIN sessions :
        \E i \in 1..Len(sessions[sid]) - 1 :
            /\ sessions[sid][i].turn = sessions[sid][i + 1].turn
            /\ sessions[sid][i].agent # sessions[sid][i + 1].agent

\* C8 as stated: a conversation that does not exist comes to exist only through
\* Create (an Append to an absent id does not create it, and a deleted id
\* stays absent until the next Create).
C8_OnlyCreateMakesPresent ==
    [][\A sid \in DOMAIN sessions' \ DOMAIN sessions :
          /\ sid = next_uuid
          /\ next_uuid' = next_uuid + 1
          /\ sessions'[sid] = <<>>]_vars

\* C8 amended: a conversation goes from absent to present on Create (empty) or
\* on an Append to its id (holding that one message); a present conversation
\* changes only by one message appended at its end; it becomes absent only
\* together with its metadata (Delete, Expire); reading a history makes no
\* conversation present or absent.
C8_Transitions ==
    [][/\ \A sid \in DOMAIN sessions' \ DOMAIN sessions :
             \/ /\ sid = next_uuid
                /\ next_uuid' = next_uuid + 1
                /\ sessions'[sid] = <<>>
             \/ /\ next_uuid' = next_uuid
                /\ Len(sessions'[sid]) = 1
                /\ session_metadata'[sid].message_count = 1
       /\ \A sid \in DOMAIN sessions \cap DOMAIN sessions' :
             \/ sessions'[sid] = sessions[sid]
             \/ /\ Len(sessions'[sid]) = Len(sessions[sid]) + 1
                /\ SubSeq(sessions'[sid], 1, Len(sessions[sid])) = sessions[sid]
       /\ \A sid \in DOMAIN sessions \ DOMAIN sessions' :
             sid \notin DOMAIN session_metadata'
       /\ last_read' # last_read => sessions' = sessions
       /\ DOMAIN sessions' = DOMAIN session_metadata']_vars

\* an id that held two messages, was deleted, and exists again through Append
C8_Witness ==
    /\ last_read # <<>>
    /\ Len(last_read.history) = 2
    /\ last_read.sid \in DOMAIN sessions
    /\ Len(sessions[last_read.sid]) = 1

\* C9: every agent response of a returned result, the fallback agent's
\* included, has passed through the output filter once, and so has a
\* synthesized text.
C9_EveryResponseFiltered ==
    (pc = "done" /\ response.status = "returned"
        /\ response.service \in {"workflow", "chat"})
    => \A i \in 1..Len(response.messages) :
          response.messages[i].kind \in {"response", "synthesized"}
          => response.messages[i].filtered = 1

\* the fallback agent's text is returned without having been filtered
C9_Witness ==
    /\ pc = "done"
    /\ response.service = "workflow"
    /\ response.status = "returned"
    /\ Len(response.messages) = 2
    /\ response.messages[2].agent = "generic_agent"
    /\ response.messages[2].filtered = 0

\* C10: when the classifier raises during a check, the verdict is taken as
\* safe: the request is not rejected for it, and the input check and the
\* output filter give what they give for content the classifier finds clean.
C10_ClassifierFailureIsSafe ==
    /\ \A i \in 1..Len(gate_log) :
          gate_log[i].outcome \in RaisingKinds => gate_log[i].safe
    /\ (gate_log # <<>> /\ gate_log[1].outcome \in RaisingKinds)
       => ~(pc = "done" /\ (response.blocked \/ response.error = "HTTP400"))
    /\ \A o \in RaisingOutcomes, t \in {UserText} \cup AgentTexts :
          /\ CheckUserInputAsync(cs, t, o).allowed
          /\ CheckUserInputAsync(cs, t, o).allowed
               = CheckUserInputAsync(cs, t, CleanResponse).allowed
          /\ FilterOutput(cs, t, AnalyzeTextAsync(cs, t, o))
               = FilterOutput(cs, t, AnalyzeTextAsync(cs, t, CleanResponse))
          /\ FilterOutput(cs, t, AnalyzeTextAsync(cs, t, o)).value = t

C10_Witness ==
    /\ pc = "done"
    /\ response.status = "returned"
    /\ response.service = "chat"
    /\ cs.enabled
    /\ Len(gate_log) = 2
    /\ gate_log[1].outcome \in RaisingKinds
    /\ gate_log[2].outcome \in RaisingKinds

(***************************************************************************)
(* The safety verdict as a function of thresholds and classifier response  *)
(***************************************************************************)
\* the last direct analysis got an answer from the classifier
ClassifierAnswered ==
    /\ last_analysis.media # "none"
    /\ cs.enabled
    /\ last_analysis.content # ""
    /\ last_analysis.outcome.kind = "response"

\* the result the service builds from an answer to the last kind of call
BuildFor(media, resp) ==
    IF media = "text" THEN BuildResultFromText(cs, resp)
    ELSE BuildResultFromImage(cs, resp)

\* C11 as stated: for every configuration of the four thresholds and every
\* classifier response, the verdict is disallowed exactly when some category's
\* severity is at or above that category's threshold or the response carries
\* a blocklist match.
C11_UnsafeIffAtThresholdOrMatch ==
    ClassifierAnswered =>
        LET th == cs.category_thresholds
            resp == last_analysis.outcome
        IN ~IsSafe(last_analysis.result)
             <=> \/ \E c \in Categories : resp.severities[c] >= th[c]
                 \/ resp.blocklist # {}

\* C11, amended: the verdict is disallowed exactly when some category whose
\* threshold is not -1 has a severity at or above its threshold, or the
\* response carries a blocklist match with a non-empty item text; raising the
\* severity of one category whose threshold is not -1 above that threshold
\* makes the verdict unsafe whatever the rest of the response is.
C11_UnsafeIffFlaggedOrMatch ==
    ClassifierAnswered =>
        LET th == cs.category_thresholds
            resp == last_analysis.outcome
        IN /\ ~IsSafe(last_analysis.result)
                <=> \/ \E c \in Categories :
                          th[c] # -1 /\ resp.severities[c] >= th[c]
                    \/ \E t \in resp.blocklist : t # ""
           /\ \A c \in Categories, s \in SeverityLevels :
                  (th[c] # -1 /\ s > th[c]) =>
                      ~IsSafe(BuildFor(last_analysis.media,
                                       [resp EXCEPT !.severities[c] = s]))

\* a text was analysed whose only finding is Violence 6 against threshold 2,
\* and the verdict is unsafe
C11_Witness ==
    /\ ClassifierAnswered
    /\ last_analysis.media = "text"
    /\ cs.category_thresholds["Violence"] = 2
    /\ last_analysis.outcome = ViolentResponse
    /\ last_analysis.result.flagged_categories = {"Violence"}
    /\ ~IsSafe(last_analysis.result)

(***************************************************************************)
(* The verdict record and its two lists                                    *)
(***************************************************************************)
\* C12: every result analyze_text_async or analyze_image_async returns, the
\* not-configured and the failure result included, has is_safe equal to
\* "flagged_categories is empty and blocklist_matches is empty".
C12_IsSafeMatchesLists ==
    last_analysis.media # "none" =>
        LET r == last_analysis.result
        IN r.is_safe = (r.flagged_categories = {} /\ r.blocklist_matches = {})

\* a text answer with no flagged category and a blocklist match: is_safe is
\* false because of the match alone
C12_Witness ==
    /\ ClassifierAnswered
    /\ last_analysis.media = "text"
    /\ last_analysis.result.flagged_categories = {}
    /\ last_analysis.result.blocklist_matches = {"badword"}
    /\ ~last_analysis.result.is_safe


(***************************************************************************)
(* The inferred path when the manager selects nobody                       *)
(***************************************************************************)
\* execute_workflow returned a result for an input the gate let through
WfReturned ==
    /\ pc = "done"
    /\ response.service = "workflow"
    /\ response.status = "returned"
    /\ ~response.blocked

\* C13: when the stream ends without an agent response, the generic agent is
\* substituted and invoked, so a run of execute_workflow that returns a result
\* for an admitted input never has an empty participating set.
C13_FallbackNeverEmpty ==
    /\ [](WfReturned => response.participating_agents # <<>>)
    /\ [][(pc = "wf_fallback" /\ agent_responses = <<>> /\ pc' = "wf_append")
            => /\ selected_agents' = <<"generic_agent">>
               /\ invoked' = Append(invoked, "generic_agent")
               /\ Len(agent_responses') = 1
               /\ agent_responses'[1].agent = "generic_agent"]_vars

\* the stream of a workflow without the generic agent ended with no response,
\* and the result names the generic agent as its one participant
C13_Witness ==
    /\ WfReturned
    /\ "generic_agent" \notin workflow
    /\ stream_errors = <<>>
    /\ response.participating_agents = <<"generic_agent">>
    /\ Len(response.messages) = 2


(***************************************************************************)
(* Recorded names against the names registered in the workflow             *)
(***************************************************************************)
\* the speakers of the agent turns of a list of messages
Speakers(msgs) ==
    {msgs[i].agent : i \in {j \in 1..Len(msgs) : msgs[j].kind = "response"}}

\* C14: in a run of execute_workflow every name recorded as selected or
\* participating, and every speaker of an agent turn, is a name registered in
\* the workflow built for that request.
C14_RecordedAreRegistered ==
    InWorkflow =>
        /\ Range(selected_agents) \subseteq workflow
        /\ Range(response.participating_agents) \subseteq workflow
        /\ Speakers(messages) \subseteq workflow
        /\ session_id # None => Speakers(StoredByRun) \subseteq workflow

\* the workflow was built with gemini_agent alone, and the result and the
\* stored turn name generic_agent
C14_Witness ==
    /\ WfReturned
    /\ request.agents = <<"gemini_agent", "nobody">>
    /\ workflow = {"gemini_agent"}
    /\ "generic_agent" \in Range(response.participating_agents)
    /\ "generic_agent" \in Speakers(StoredByRun)


(***************************************************************************)
(* Names of the request that do not resolve                                *)
(***************************************************************************)
\* get_agent can hand out an agent for this name
Resolvable(n) == "agent" \in GetAgentOutcomes(n)

\* C15: a name of the request that does not resolve is dropped: it is never
\* registered, never invoked and never the speaker of a response; the run goes
\* on with the names that resolve, and it is failed for its names only when
\* not one of them resolved.
C15_BadNamesDropped ==
    (InGroupChat \/ InWorkflow) =>
        /\ \A n \in Range(request.agents) :
              ~Resolvable(n) => /\ n \notin workflow
                                /\ n \notin Range(invoked)
                                /\ n \notin Speakers(messages)
        /\ (pc = "done" /\ response.status = "raised" /\ response.error = "ValueError")
              => (workflow = {} /\ invoked = <<>>)
        /\ (pc = "done" /\ InGroupChat) =>
              /\ response.status = "returned"
              /\ \A n \in Range(request.agents) :
                    Resolvable(n) => n \in Range(invoked) \cup FailedAgents

\* start_group_chat returned for a list with an unknown name: the known agent
\* before it answered, and the unknown one was never invoked
C15_Witness ==
    /\ pc = "done"
    /\ InGroupChat
    /\ request.agents = <<"gemini_agent", "nobody">>
    /\ response.status = "returned"
    /\ resolved >= 2
    /\ Range(invoked) = {"gemini_agent"}
    /\ Speakers(response.messages) = {"gemini_agent"}


(***************************************************************************)
(* Synthesis when the synthesis agent is missing or its call fails         *)
(***************************************************************************)
\* the generic agent was not obtained, or the provider call of its run failed
SynthesisFailed(outcome) == outcome.get_agent # "agent" \/ outcome.run = "fails"

\* the agents of a list of formatter messages, user excluded
Responders(msgs) == {msgs[i].agent : i \in 1..Len(msgs)} \ {"user"}

\* C16: with two or more responses and a synthesis agent that is unavailable or
\* whose call fails, the synthesized content is the concatenation of the
\* responses, each under its agent's name, in the order they were collected,
\* and never the error text of the failed call.
C16_FailedSynthesisConcatenates ==
    /\ (synthesis.source = "workflow" /\ Len(synthesis.input) >= 2
            /\ SynthesisFailed(synthesis.outcome))
        => /\ synthesis.text # ApologyText
           /\ synthesis.text =
                 Join([i \in 1..Len(synthesis.input) |->
                          <<"**", synthesis.input[i].agent_name, "**", ": ">>
                             \o synthesis.input[i].text])
    /\ (synthesis.source = "formatter" /\ Len(synthesis.input) = 3
            /\ Cardinality(Responders(synthesis.input)) = 2
            /\ SynthesisFailed(synthesis.outcome))
        => /\ synthesis.text # ApologyText
           /\ synthesis.text =
                 Join([i \in 1..2 |->
                          <<"**", DisplayName(synthesis.input[i + 1].agent), ":**\n">>
                             \o synthesis.input[i + 1].content])

\* two agents responded, the run of the generic agent failed, and the
\* synthesized answer is the apology text of that run
C16_Witness ==
    /\ synthesis.source = "workflow"
    /\ Len(synthesis.input) = 2
    /\ synthesis.input[1].agent_name # synthesis.input[2].agent_name
    /\ synthesis.outcome = [get_agent |-> "agent", run |-> "fails"]
    /\ synthesis.text = ApologyText

(***************************************************************************)
(* Synthesis when one agent responded                                      *)
(***************************************************************************)
\* C17: when exactly one agent of a group chat responded, the answer composed
\* for the user is that agent's response, piece for piece, and no synthesis
\* call is made.
C17_SingleResponseVerbatim ==
    (pc = "done" /\ synthesis.source = "formatter"
        /\ Cardinality(Speakers(response.messages)) = 1)
    => /\ ~synthesis.called
       /\ \E i \in 1..Len(response.messages) :
             /\ response.messages[i].kind = "response"
             /\ synthesis.text = Tokens(response.messages[i].content)

\* generic_agent answered "X", gemini_agent did not, and the answer composed
\* for the user is a concatenation made after a synthesis attempt
C17_Witness ==
    /\ pc = "done"
    /\ synthesis.source = "formatter"
    /\ Speakers(response.messages) = {"generic_agent"}
    /\ "gemini_agent" \in FailedAgents
    /\ synthesis.called
    /\ synthesis.text # Tokens("X")
    /\ Len(synthesis.text) > 1


(***************************************************************************)
(* The turn of the synthetic speaker                                       *)
(***************************************************************************)
\* the positions of the turns of the synthetic speaker in a list of messages
SynthesizerTurns(msgs) ==
    {i \in 1..Len(msgs) : msgs[i].agent = "workflow_synthesizer"}

\* C18: a run of execute_workflow in which more than one agent responded
\* records exactly one turn of the synthetic speaker, after all agent turns; a
\* run in which one agent or none responded records no such turn.
C18_OneSynthesizerTurn ==
    (pc = "done" /\ InWorkflow /\ stream_errors = <<>>) =>
        /\ responded > 1 =>
              /\ response.status = "returned"
              /\ SynthesizerTurns(response.messages) = {Len(response.messages)}
              /\ SynthesizerTurns(StoredByRun) = {Len(StoredByRun)}
        /\ responded <= 1 =>
              /\ SynthesizerTurns(response.messages) = {}
              /\ session_id # None => SynthesizerTurns(StoredByRun) = {}

\* two agents answered inside the workflow, the stream raised no provider
\* error, and the run ended with no turn of the synthetic speaker stored
C18_Witness ==
    /\ pc = "done"
    /\ InWorkflow
    /\ stream_errors = <<>>
    /\ responded = 2
    /\ response.status = "raised"
    /\ session_id # None
    /\ SynthesizerTurns(StoredByRun) = {}


(***************************************************************************)
(* A run in which every agent failed                                       *)
(***************************************************************************)
\* every agent of the request failed or timed out and none responded
AllAgentsFailed ==
    /\ request.agents # <<>>
    /\ \A n \in Range(request.agents) : Resolvable(n) => n \in FailedAgents
    /\ Range(request.agents) \cap FailedAgents # {}
    /\ Speakers(messages) = {}

\* C19: a run of start_group_chat in which every selected agent failed or
\* timed out ends with a failure handed to the caller, not with a normal
\* result.
C19_AllFailedIsFailure ==
    (pc = "done" /\ InGroupChat /\ AllAgentsFailed) => response.status = "raised"

\* both agents of the request timed out in the first round, and start_group_chat
\* returned a GroupChatResponse holding the user message and two error messages
C19_Witness ==
    /\ pc = "done"
    /\ InGroupChat
    /\ request.agents = <<"generic_agent", "gemini_agent">>
    /\ failed = {[agent |-> "generic_agent", cause |-> "timeout"],
                 [agent |-> "gemini_agent", cause |-> "timeout"]}
    /\ response.status = "returned"
    /\ Len(response.messages) = 3
    /\ response.terminated_agents = {"generic_agent", "gemini_agent"}


(***************************************************************************)
(* What is handed to the caller as a failure                               *)
(***************************************************************************)
\* the caller got an exception or an error status instead of a result
SurfacedFailure == pc = "done" /\ response.status = "raised"

\* the input was rejected by the safety gate
PolicyViolation ==
    \/ response.blocked
    \/ (response.service = "chat" /\ response.error = "HTTP400")

\* C20: the caller gets a failure only for a policy violation or when no
\* agent of the run produced a response; a run in which an agent responded
\* ends with an answer, whatever else went wrong.
C20_OnlyPolicyOrAllFailed ==
    SurfacedFailure => (PolicyViolation \/ Succeeded = {})

\* the gate admitted the input, one agent answered inside the workflow, no
\* provider error occurred, and execute_workflow raised
C20_Witness ==
    /\ SurfacedFailure
    /\ response.service = "workflow"
    /\ ~PolicyViolation
    /\ responded = 1
    /\ delivered = 1
    /\ stream_errors = <<>>
    /\ Succeeded # {}
    /\ response.error \in {"TypeError", "AttributeError"}

\* an invocation of the group chat starts
GcInvocationStarts == pc = "gc_loop" /\ pc' = "gc_wait"

\* agents whose invocation of the current round has returned
ReturnedThisRound ==
    {messages[i].agent : i \in {j \in 1..Len(messages) :
        messages[j].turn = current_turn /\ messages[j].kind = "response"}}

C22_HistoryIsTheAppends ==
    /\ [](\A sid \in DOMAIN appended :
            SmHistory(sessions, sid) = appended[sid])
    /\ [][/\ last_read' # last_read
             => /\ last_read'.history = SmHistory(appended, last_read'.sid)
                /\ sessions' = sessions
          /\ \A sid \in DOMAIN appended \cap DOMAIN appended' :
               /\ Len(sessions'[sid]) >= Len(sessions[sid])
               /\ SubSeq(sessions'[sid], 1, Len(sessions[sid])) = sessions[sid]]_vars

\* a read that returned two appended messages in the order of the calls, which
\* is not the order of their turn numbers
C22_Witness ==
    /\ last_read # <<>>
    /\ last_read.sid \in DOMAIN appended
    /\ last_read.history = appended[last_read.sid]
    /\ Len(last_read.history) = 2
    /\ last_read.history[1].agent = "generic_agent"
    /\ last_read.history[2].agent = "user"

\* the time since session sid was last accessed
Age(sid) == now - session_metadata[sid].last_accessed

\* C23: cleanup_expired_sessions removes exactly the sessions last accessed
\* longer ago than the maximum age, leaves the others as they were, and
\* returns the number of sessions it removed; a read or an append sets the
\* last-accessed time of the session to the current time.
C23_CleanupRemovesTheExpired ==
    [][/\ (last_cleanup' # last_cleanup /\ last_cleanup' # <<>>)
          => /\ DOMAIN sessions' =
                  {sid \in DOMAIN sessions : ~(Age(sid) > SESSION_MAX_AGE_DAYS)}
             /\ DOMAIN session_metadata' = DOMAIN sessions'
             /\ \A sid \in DOMAIN sessions' :
                  /\ sessions'[sid] = sessions[sid]
                  /\ session_metadata'[sid] = session_metadata[sid]
             /\ last_cleanup'.cleanup_count =
                  Cardinality(DOMAIN sessions \ DOMAIN sessions')
       /\ (last_read' # last_read /\ last_read'.sid \in DOMAIN session_metadata)
          => session_metadata'[last_read'.sid].last_accessed = now
       /\ \A sid \in DOMAIN appended' :
            (sid \notin DOMAIN appended \/ appended'[sid] # appended[sid])
            => session_metadata'[sid].last_accessed = now]_vars

\* a cleanup has just removed the one session, which held a message and had
\* last been accessed two maximum ages before, and returned 1
C23_Witness ==
    /\ last_cleanup # <<>>
    /\ last_cleanup.cleanup_count = 1
    /\ now = 2 * SESSION_MAX_AGE_DAYS
    /\ last_read # <<>>
    /\ Len(last_read.history) = 1
    /\ last_read.sid \notin DOMAIN sessions

\* the output filter is on and the analysis handed to it says unsafe
FilteringUnsafe ==
    /\ last_filtered.called
    /\ cs.enabled /\ cs.filter_unsafe_output
    /\ last_filtered.analysis.enabled
    /\ ~last_filtered.analysis.is_safe

EndedCalls(service) ==
    {i \in 1..Len(finished) : finished[i].service = service}

\* the ended calls for a name that its service types as a Foundry agent
FoundryCalls ==
    {i \in 1..Len(finished) :
        IF finished[i].service = "agent_service"
        THEN DetermineAgentType(finished[i].agent_name) = "ms_foundry_agent"
        ELSE NewDetermineAgentType(finished[i].agent_name) = "ms_foundry_agent"}

C26_ConstructedOnce ==
    \A c1, c2 \in Callers :
        (/\ c1 # c2
         /\ calls[c1].pc # "idle" /\ calls[c2].pc # "idle"
         /\ calls[c1].agent_name = calls[c2].agent_name
         /\ calls[c1].enable_memory = calls[c2].enable_memory)
        => ~(calls[c1].agent # None /\ calls[c2].agent # None)

\* C27: once a call for a name and memory variant has returned an agent, every
\* later call of the same service for that name and variant returns the same
\* instance, taken from the cache.
C27_SameInstanceOnceReturned ==
    \A i, j \in 1..Len(finished) :
        (/\ i < j
         /\ finished[i].service = finished[j].service
         /\ finished[i].agent_name = finished[j].agent_name
         /\ finished[i].enable_memory = finished[j].enable_memory
         /\ finished[i].result = "agent")
        => /\ finished[j].result = "agent"
           /\ finished[j].agent = finished[i].agent
           /\ finished[j].path = "cache"

C26_Witness ==
    /\ calls[1].pc = "standard_init"
    /\ calls[2].pc = "foundry_init"
    /\ calls[1].agent_name = "people_lookup"
    /\ calls[2].agent_name = "people_lookup"
    /\ ~calls[1].enable_memory /\ ~calls[2].enable_memory
    /\ calls[2].waited
    /\ Len(constructed) = 3

\* the AgentService of agent_service_new.py returned two instances for
\* generic_agent without memory
C27_Witness ==
    /\ Len(finished) = 2
    /\ \A i \in 1..2 :
         /\ finished[i].service = "agent_service_new"
         /\ finished[i].agent_name = "generic_agent"
         /\ ~finished[i].enable_memory
         /\ finished[i].result = "agent"
    /\ finished[1].agent # finished[2].agent

(***************************************************************************)
(* One response per agent in a run of execute_workflow                     *)
(***************************************************************************)
\* no element occurs twice in the sequence
NoDuplicates(seq) ==
    \A i, j \in 1..Len(seq) : i # j => seq[i] # seq[j]

\* the agents of the agent turns of a message list
ResponseAgents(msgs) ==
    LET turns == SelectSeq(msgs, LAMBDA m : m.kind = "response")
    IN [i \in 1..Len(turns) |-> turns[i].agent]

RunCompleted ==
    /\ pc = "done"
    /\ response.status = "returned"
    /\ response.service \in {"group_chat", "workflow"}
    /\ ~response.blocked

\* C29: the non-user messages of the result of a completed run are the turns
\* the run added to the Session Store, in the same order; a timeout or error
\* message of the result is in the session history.
C29_ReturnedAreTheStored ==
    RunCompleted
    => AgentTurns(response.messages) = AgentTurns(StoredByRun)

\* a group chat returned the error message of an agent; the message is not in
\* the history of the session
C29_Witness ==
    /\ RunCompleted
    /\ response.service = "group_chat"
    /\ failed # {}
    /\ \E i \in 1..Len(response.messages) :
         /\ response.messages[i].kind = "error"
         /\ response.messages[i] \notin Range(SmHistory(sessions, session_id))
    /\ Len(AgentTurns(StoredByRun)) < Len(AgentTurns(response.messages))

(***************************************************************************)
(* The rounds of start_group_chat                                          *)
(***************************************************************************)
\* a run of start_group_chat is in progress / has returned
GcRunning == pc \in GcPcs
GcReturned == pc = "done" /\ response.service = "group_chat"
                 /\ response.status = "returned"

\* the loop goes on to its next round
GcNextRound == pc = "gc_loop" /\ pc' = "gc_loop" /\ turn' = turn + 1

====
